---------------------------- MODULE Spec2Model ----------------------------
(***************************************************************************)
(* A model of MitoGraph (src/MitoGraph.cxx): the segmentation pipeline     *)
(* (normalisation, multiscale vesselness, component filter, binarisation)  *)
(* and the attribute extraction over the skeleton graph.                   *)
(*                                                                         *)
(* Numbers.  The program computes in IEEE doubles.  The normalisation, the  *)
(* binarisation, the connectivity enhancement and the resampling are       *)
(* modelled in doubles, rounding after every operation.  The other stages  *)
(* compute in integers and keep every comparison of the code exact by      *)
(* drawing the inputs from sets on which the code's real-valued            *)
(* expressions are rational (or integer) and by comparing cross-multiplied *)
(* terms.  Where the code calls exp (the vesselness response) the model    *)
(* uses a fixed point value of resolution 1/FP.                            *)
(*                                                                         *)
(* Each stage has its own specification (SpecVess, SpecNorm, ...): the     *)
(* variables of the other stages are parked in Init and left unchanged.    *)
(***************************************************************************)
EXTENDS Integers, Sequences, FiniteSets, TLC

VARIABLES
    \* ---- multiscale vesselness (MultiscaleVesselness, GetVesselness) ----
    mito, \* the configuration held by _mitoObject
    HessOf, \* per scale: the Hessian field of the smoothed image
    sigma, \* the scale loop's variable, as a numerator over SigmaDen
    AUX1, \* L1 of the Hessian routines, then the vesselness response
    AUX2, \* L2
    AUX3, \* L3
    VSSS, \* the fused multiscale field
    scalesRun, \* the scales whose iteration has completed
    pcV, \* position in the scale loop
    \* ---- intensity normalisation (Convert16To8bit*) ----
    scalarType, \* Image -> GetScalarType()
    Image16, \* the input scalars
    block_size, \* the z-block size handed to the block policies
    Image8, \* the returned scalars, or "NULL"
    pcN, \* which policy has run
    \* ---- binarization (BinarizeAndConvertDoubleToChar) ----
    ImageD, \* the input scalars, in hundredths
    threshold, \* the threshold argument, in hundredths
    Binary, \* the returned scalars
    pcB, \* position in the call
    \* ---- component filter (MultiscaleVesselness) ----
    ImageBefore, \* ImageEnhanced as handed to the labeler
    ImageEnhanced, \* ImageEnhanced, zeroed in place by the filter
    Volume, \* the signed per-voxel label written by the labeler
    CSz, \* the per-label voxel counts
    ncc, \* the number of components the labeler returned
    filterCfg, \* _smart_component_filtering and _min_component_size
    pcF, \* position in the stage
    \* ---- skeleton graph (ConnectSkeletonFragments, Estimate*, Get*) ----
    Points, \* the skeleton's points
    LinesIn, \* the skeleton's cells as the thinning returned them
    Lines, \* the skeleton's cells, each a sequence of point ids
    Width, \* the per-point Width array
    Length, \* the per-point Length array
    NodesG, \* the per-point Nodes array written by the thinning
    graphCfg, \* _enhance_connectivity, _div_threshold < 0.1, _dxy, _dz, _rad, origin
    graphAttr, \* the attributes appended by the stage
    pcG, \* position in the stage
    \* ---- batch loop (main) ----
    attributes, \* mitoObject.attributes
    file, \* the number of files started (i + 1 inside the loop body)
    mainCfg, \* _checkonly, _analyze, Files.size(), _rad
    dumped, \* what DumpResults received, per file
    pcM, \* position in the loop body
    \* ---- one batch, file by file (main, MultiscaleVesselness) ----
    runCfg, \* mitoObject.Type, _resample, _checkonly and the pixel size given
    srcFiles, \* per file: can it be read, its bit depth, its planes
    fileR, \* the number of files started
    ImageR, \* the grid the run works on (TIFFReader output, then Image)
    ImageDataR, \* the grid the intensity profile is read from (ImageData)
    spacingR, \* the globals _dxy and _dz
    reportR, \* the names in mitoObject.attributes
    retR, \* per file started: what MultiscaleVesselness returned
    pcR, \* position in main and in MultiscaleVesselness
    \* ---- command line (main) ----
    argvC, \* the block options of the command line, in order
    argiC, \* the number of options parsed
    blockCfg, \* mitoObject's _nblks, _z_block_size, _min_component_size and their switches
    pcC, \* position in main
    \* ---- scale loop (MultiscaleVesselness) ----
    scaleCfg, \* _sigmai, _sigmaf, _nsigma, _dsigma
    filesS, \* Files.size()
    fileS, \* the number of files started
    sigmaS, \* the loop variable sigma, as a numerator over SigmaDen
    scalesS, \* the scales whose body has run for this file, in order
    pcS, \* position in the loop
    \* ---- per-plane binarization (BinarizeAndConvertDoubleToCharZAdaptive) ----
    ImageZ, \* the input scalars
    base_threshold, \* the base threshold argument, in tenths
    z_threshold, \* per plane: the threshold applied, a double
    BinaryZ, \* the returned scalars
    pcZ, \* position in the call
    \* ---- per-block conservative binarization (BinarizeAndConvertDoubleToCharZAdaptiveConservative) ----
    ImageK, \* the input scalars: the plane size, a background sample and, per plane, the first samples
    baseK, \* the base threshold argument, in tenths
    block_sizeK, \* the z-block size argument
    thresholdK, \* per z-block: the threshold applied, a double
    BinaryK, \* the returned scalars
    pcK, \* position in the call
    \* ---- voxel-level connectivity enhancer (EnhanceStructuralConnectivity) ----
    OriginalE, \* the input scalars, in hundredths
    Smooth1E, \* the scalars of GaussSmooth1's output, in hundredths
    Smooth2E, \* the scalars of GaussSmooth2's output, in hundredths
    EnhancedE, \* the returned scalars, doubles
    pcE, \* position in the call
    \* ---- hole filling (FillHoles) ----
    improve_skeleton_quality, \* _improve_skeleton_quality
    DimH, \* the grid's dimensions
    BinaryH, \* the scalars handed to FillHoles
    FilledH, \* the scalars after FillHoles
    pcH, \* position in the call
    \* ---- discrete derivative (GetImageDerivativeDiscrete) ----
    DimD, \* the dim argument
    ImageDer, \* the Image argument's scalars
    directionD, \* the direction argument
    strayD, \* what each cell past the ends of the array holds
    DerivativeD, \* the Derivative array, in halves
    readsD, \* per voxel: the positions the call read
    pcD, \* position in the call
    \* ---- divergence filter (GetDivergenceFilter) ----
    DimDiv, \* the Dim argument
    ScalarsDiv, \* the Scalars argument on entry
    DivOut, \* Scalars on return, as numerators over 6 * UnitDen
    readsDiv, \* per voxel: the positions read to compute it
    pcDiv, \* position in the call
    \* ---- component filter to binarization (MultiscaleVesselness) ----
    pipeCfg, \* the switches and sizes of _mitoObject the stages read
    ImageP, \* ImageEnhanced up to the component filter, in hundredths
    ImageEnhancedP, \* ImageEnhanced from the component filter on, doubles
    VolumeP, \* the signed per-voxel label written by the labeler
    CSzP, \* the per-label voxel counts
    nccP, \* the number of components the labeler returned
    zeroedP, \* the voxels the component filter set to 0
    BinaryP, \* the scalars of Binary
    pcP  \* position in the stage sequence

varsVess == <<mito, HessOf, sigma, AUX1, AUX2, AUX3, VSSS, scalesRun, pcV>>

varsNorm == <<scalarType, Image16, block_size, Image8, pcN>>

varsBin == <<ImageD, threshold, Binary, pcB>>

varsFilt == <<ImageBefore, ImageEnhanced, Volume, CSz, ncc, filterCfg, pcF>>

varsGraph == <<Points, LinesIn, Lines, Width, Length, NodesG, graphCfg, graphAttr, pcG>>

varsMain == <<attributes, file, mainCfg, dumped, pcM>>

varsRun == <<runCfg, srcFiles, fileR, ImageR, ImageDataR, spacingR, reportR, retR, pcR>>

varsCfg == <<argvC, argiC, blockCfg, pcC>>

varsScale == <<scaleCfg, filesS, fileS, sigmaS, scalesS, pcS>>

varsBinZ == <<ImageZ, base_threshold, z_threshold, BinaryZ, pcZ>>

varsBinK == <<ImageK, baseK, block_sizeK, thresholdK, BinaryK, pcK>>

varsEnh == <<OriginalE, Smooth1E, Smooth2E, EnhancedE, pcE>>

varsFill == <<improve_skeleton_quality, DimH, BinaryH, FilledH, pcH>>

varsDer == <<DimD, ImageDer, directionD, strayD, DerivativeD, readsD, pcD>>

varsDiv == <<DimDiv, ScalarsDiv, DivOut, readsDiv, pcDiv>>

varsPipe == <<pipeCfg, ImageP, ImageEnhancedP, VolumeP, CSzP, nccP, zeroedP, BinaryP, pcP>>

vars == <<varsVess, varsNorm, varsBin, varsFilt, varsGraph, varsMain, varsRun, varsCfg, varsScale, varsBinZ, varsBinK, varsEnh, varsFill, varsDer, varsDiv, varsPipe>>

\* A stage's specification parks the variables of the other stages.
ParkVess ==
    /\ mito = "-"
    /\ HessOf = "-"
    /\ sigma = 0
    /\ AUX1 = "-"
    /\ AUX2 = "-"
    /\ AUX3 = "-"
    /\ VSSS = "-"
    /\ scalesRun = {}
    /\ pcV = "-"

ParkNorm ==
    /\ scalarType = "-"
    /\ Image16 = "-"
    /\ block_size = 0
    /\ Image8 = "-"
    /\ pcN = "-"

ParkBin ==
    /\ ImageD = "-"
    /\ threshold = 0
    /\ Binary = "-"
    /\ pcB = "-"

ParkFilt ==
    /\ ImageBefore = "-"
    /\ ImageEnhanced = "-"
    /\ Volume = "-"
    /\ CSz = <<>>
    /\ ncc = 0
    /\ filterCfg = "-"
    /\ pcF = "-"

ParkGraph ==
    /\ Points = <<>>
    /\ LinesIn = <<>>
    /\ Lines = <<>>
    /\ Width = <<>>
    /\ Length = <<>>
    /\ NodesG = <<>>
    /\ graphCfg = "-"
    /\ graphAttr = <<>>
    /\ pcG = "-"

ParkMain ==
    /\ attributes = <<>>
    /\ file = 0
    /\ mainCfg = "-"
    /\ dumped = <<>>
    /\ pcM = "-"

ParkRun ==
    /\ runCfg = "-"
    /\ srcFiles = <<>>
    /\ fileR = 0
    /\ ImageR = "-"
    /\ ImageDataR = "-"
    /\ spacingR = <<>>
    /\ reportR = <<>>
    /\ retR = <<>>
    /\ pcR = "-"

ParkCfg ==
    /\ argvC = <<>>
    /\ argiC = 0
    /\ blockCfg = "-"
    /\ pcC = "-"

ParkScale ==
    /\ scaleCfg = "-"
    /\ filesS = 0
    /\ fileS = 0
    /\ sigmaS = 0
    /\ scalesS = <<>>
    /\ pcS = "-"

ParkBinZ ==
    /\ ImageZ = "-"
    /\ base_threshold = 0
    /\ z_threshold = <<>>
    /\ BinaryZ = "-"
    /\ pcZ = "-"

ParkBinK ==
    /\ ImageK = "-"
    /\ baseK = 0
    /\ block_sizeK = 0
    /\ thresholdK = <<>>
    /\ BinaryK = "-"
    /\ pcK = "-"

ParkEnh ==
    /\ OriginalE = "-"
    /\ Smooth1E = "-"
    /\ Smooth2E = "-"
    /\ EnhancedE = "-"
    /\ pcE = "-"

ParkFill ==
    /\ improve_skeleton_quality = FALSE
    /\ DimH = <<>>
    /\ BinaryH = "-"
    /\ FilledH = "-"
    /\ pcH = "-"

ParkDer ==
    /\ DimD = <<>>
    /\ ImageDer = "-"
    /\ directionD = "-"
    /\ strayD = 0
    /\ DerivativeD = "-"
    /\ readsD = "-"
    /\ pcD = "-"

ParkDiv ==
    /\ DimDiv = <<>>
    /\ ScalarsDiv = "-"
    /\ DivOut = "-"
    /\ readsDiv = "-"
    /\ pcDiv = "-"

ParkPipe ==
    /\ pipeCfg = "-"
    /\ ImageP = "-"
    /\ ImageEnhancedP = "-"
    /\ VolumeP = "-"
    /\ CSzP = <<>>
    /\ nccP = 0
    /\ zeroedP = {}
    /\ BinaryP = "-"
    /\ pcP = "-"

ParkedForVess == ParkNorm /\ ParkBin /\ ParkFilt /\ ParkGraph /\ ParkMain /\ ParkRun /\ ParkCfg /\ ParkScale /\ ParkBinZ /\ ParkBinK /\ ParkEnh /\ ParkFill /\ ParkDer /\ ParkDiv /\ ParkPipe

ParkedForNorm == ParkVess /\ ParkBin /\ ParkFilt /\ ParkGraph /\ ParkMain /\ ParkRun /\ ParkCfg /\ ParkScale /\ ParkBinZ /\ ParkBinK /\ ParkEnh /\ ParkFill /\ ParkDer /\ ParkDiv /\ ParkPipe

ParkedForBin == ParkVess /\ ParkNorm /\ ParkFilt /\ ParkGraph /\ ParkMain /\ ParkRun /\ ParkCfg /\ ParkScale /\ ParkBinZ /\ ParkBinK /\ ParkEnh /\ ParkFill /\ ParkDer /\ ParkDiv /\ ParkPipe

ParkedForFilt == ParkVess /\ ParkNorm /\ ParkBin /\ ParkGraph /\ ParkMain /\ ParkRun /\ ParkCfg /\ ParkScale /\ ParkBinZ /\ ParkBinK /\ ParkEnh /\ ParkFill /\ ParkDer /\ ParkDiv /\ ParkPipe

ParkedForGraph == ParkVess /\ ParkNorm /\ ParkBin /\ ParkFilt /\ ParkMain /\ ParkRun /\ ParkCfg /\ ParkScale /\ ParkBinZ /\ ParkBinK /\ ParkEnh /\ ParkFill /\ ParkDer /\ ParkDiv /\ ParkPipe

ParkedForMain == ParkVess /\ ParkNorm /\ ParkBin /\ ParkFilt /\ ParkGraph /\ ParkRun /\ ParkCfg /\ ParkScale /\ ParkBinZ /\ ParkBinK /\ ParkEnh /\ ParkFill /\ ParkDer /\ ParkDiv /\ ParkPipe

ParkedForRun == ParkVess /\ ParkNorm /\ ParkBin /\ ParkFilt /\ ParkGraph /\ ParkMain /\ ParkCfg /\ ParkScale /\ ParkBinZ /\ ParkBinK /\ ParkEnh /\ ParkFill /\ ParkDer /\ ParkDiv /\ ParkPipe

ParkedForCfg == ParkVess /\ ParkNorm /\ ParkBin /\ ParkFilt /\ ParkGraph /\ ParkMain /\ ParkRun /\ ParkScale /\ ParkBinZ /\ ParkBinK /\ ParkEnh /\ ParkFill /\ ParkDer /\ ParkDiv /\ ParkPipe

ParkedForScale == ParkVess /\ ParkNorm /\ ParkBin /\ ParkFilt /\ ParkGraph /\ ParkMain /\ ParkRun /\ ParkCfg /\ ParkBinZ /\ ParkBinK /\ ParkEnh /\ ParkFill /\ ParkDer /\ ParkDiv /\ ParkPipe

ParkedForBinZ == ParkVess /\ ParkNorm /\ ParkBin /\ ParkFilt /\ ParkGraph /\ ParkMain /\ ParkRun /\ ParkCfg /\ ParkScale /\ ParkBinK /\ ParkEnh /\ ParkFill /\ ParkDer /\ ParkDiv /\ ParkPipe

ParkedForBinK == ParkVess /\ ParkNorm /\ ParkBin /\ ParkFilt /\ ParkGraph /\ ParkMain /\ ParkRun /\ ParkCfg /\ ParkScale /\ ParkBinZ /\ ParkEnh /\ ParkFill /\ ParkDer /\ ParkDiv /\ ParkPipe

ParkedForEnh == ParkVess /\ ParkNorm /\ ParkBin /\ ParkFilt /\ ParkGraph /\ ParkMain /\ ParkRun /\ ParkCfg /\ ParkScale /\ ParkBinZ /\ ParkBinK /\ ParkFill /\ ParkDer /\ ParkDiv /\ ParkPipe

ParkedForFill == ParkVess /\ ParkNorm /\ ParkBin /\ ParkFilt /\ ParkGraph /\ ParkMain /\ ParkRun /\ ParkCfg /\ ParkScale /\ ParkBinZ /\ ParkBinK /\ ParkEnh /\ ParkDer /\ ParkDiv /\ ParkPipe

ParkedForDer == ParkVess /\ ParkNorm /\ ParkBin /\ ParkFilt /\ ParkGraph /\ ParkMain /\ ParkRun /\ ParkCfg /\ ParkScale /\ ParkBinZ /\ ParkBinK /\ ParkEnh /\ ParkFill /\ ParkDiv /\ ParkPipe

ParkedForDiv == ParkVess /\ ParkNorm /\ ParkBin /\ ParkFilt /\ ParkGraph /\ ParkMain /\ ParkRun /\ ParkCfg /\ ParkScale /\ ParkBinZ /\ ParkBinK /\ ParkEnh /\ ParkFill /\ ParkDer /\ ParkPipe

ParkedForPipe == ParkVess /\ ParkNorm /\ ParkBin /\ ParkFilt /\ ParkGraph /\ ParkMain /\ ParkRun /\ ParkCfg /\ ParkScale /\ ParkBinZ /\ ParkBinK /\ ParkEnh /\ ParkFill /\ ParkDer /\ ParkDiv

FrameVess == UNCHANGED <<varsNorm, varsBin, varsFilt, varsGraph, varsMain, varsRun, varsCfg, varsScale, varsBinZ, varsBinK, varsEnh, varsFill, varsDer, varsDiv, varsPipe>>

FrameNorm == UNCHANGED <<varsVess, varsBin, varsFilt, varsGraph, varsMain, varsRun, varsCfg, varsScale, varsBinZ, varsBinK, varsEnh, varsFill, varsDer, varsDiv, varsPipe>>

FrameBin == UNCHANGED <<varsVess, varsNorm, varsFilt, varsGraph, varsMain, varsRun, varsCfg, varsScale, varsBinZ, varsBinK, varsEnh, varsFill, varsDer, varsDiv, varsPipe>>

FrameFilt == UNCHANGED <<varsVess, varsNorm, varsBin, varsGraph, varsMain, varsRun, varsCfg, varsScale, varsBinZ, varsBinK, varsEnh, varsFill, varsDer, varsDiv, varsPipe>>

FrameGraph == UNCHANGED <<varsVess, varsNorm, varsBin, varsFilt, varsMain, varsRun, varsCfg, varsScale, varsBinZ, varsBinK, varsEnh, varsFill, varsDer, varsDiv, varsPipe>>

FrameMain == UNCHANGED <<varsVess, varsNorm, varsBin, varsFilt, varsGraph, varsRun, varsCfg, varsScale, varsBinZ, varsBinK, varsEnh, varsFill, varsDer, varsDiv, varsPipe>>

FrameRun == UNCHANGED <<varsVess, varsNorm, varsBin, varsFilt, varsGraph, varsMain, varsCfg, varsScale, varsBinZ, varsBinK, varsEnh, varsFill, varsDer, varsDiv, varsPipe>>

FrameCfg == UNCHANGED <<varsVess, varsNorm, varsBin, varsFilt, varsGraph, varsMain, varsRun, varsScale, varsBinZ, varsBinK, varsEnh, varsFill, varsDer, varsDiv, varsPipe>>

FrameScale == UNCHANGED <<varsVess, varsNorm, varsBin, varsFilt, varsGraph, varsMain, varsRun, varsCfg, varsBinZ, varsBinK, varsEnh, varsFill, varsDer, varsDiv, varsPipe>>

FrameBinZ == UNCHANGED <<varsVess, varsNorm, varsBin, varsFilt, varsGraph, varsMain, varsRun, varsCfg, varsScale, varsBinK, varsEnh, varsFill, varsDer, varsDiv, varsPipe>>

FrameBinK == UNCHANGED <<varsVess, varsNorm, varsBin, varsFilt, varsGraph, varsMain, varsRun, varsCfg, varsScale, varsBinZ, varsEnh, varsFill, varsDer, varsDiv, varsPipe>>

FrameEnh == UNCHANGED <<varsVess, varsNorm, varsBin, varsFilt, varsGraph, varsMain, varsRun, varsCfg, varsScale, varsBinZ, varsBinK, varsFill, varsDer, varsDiv, varsPipe>>

FrameFill == UNCHANGED <<varsVess, varsNorm, varsBin, varsFilt, varsGraph, varsMain, varsRun, varsCfg, varsScale, varsBinZ, varsBinK, varsEnh, varsDer, varsDiv, varsPipe>>

FrameDer == UNCHANGED <<varsVess, varsNorm, varsBin, varsFilt, varsGraph, varsMain, varsRun, varsCfg, varsScale, varsBinZ, varsBinK, varsEnh, varsFill, varsDiv, varsPipe>>

FrameDiv == UNCHANGED <<varsVess, varsNorm, varsBin, varsFilt, varsGraph, varsMain, varsRun, varsCfg, varsScale, varsBinZ, varsBinK, varsEnh, varsFill, varsDer, varsPipe>>

FramePipe == UNCHANGED <<varsVess, varsNorm, varsBin, varsFilt, varsGraph, varsMain, varsRun, varsCfg, varsScale, varsBinZ, varsBinK, varsEnh, varsFill, varsDer, varsDiv>>

(***************************************************************************)
(* Bounds of the model                                                     *)
(***************************************************************************)
DimX == 3
DimY == 3
DimZ == 3
MaxBlks == 2
MaxBlockSize == 2
MaxMinSize == 2
MaxFiles == 2

(***************************************************************************)
(* Auxiliary functions                                                     *)
(***************************************************************************)
Dim == <<DimX, DimY, DimZ>>

NumVoxels == DimX * DimY * DimZ

Ids == 0 .. (NumVoxels - 1)

GetX(id) == id % DimX

GetY(id) == (id % (DimX * DimY)) \div DimX

GetZ(id) == id \div (DimX * DimY)

GetId(x, y, z) == x + y * DimX + z * DimX * DimY

\* the first six entries of the neighbour tables: the 6-neighbourhood
ssdx_sort == <<0, -1, 0, 1, 0, 0>>

ssdy_sort == <<0, 0, -1, 0, 1, 0>>

ssdz_sort == <<-1, 0, 0, 0, 0, 1>>

Abs(v) == IF v < 0 THEN -v ELSE v

\* fabs-ordered exchange of Sort: three compare-and-swap steps
SwapIf(t, i, j) ==
    IF Abs(t[i]) > Abs(t[j])
    THEN [t EXCEPT ![i] = t[j], ![j] = t[i]]
    ELSE t

SortNoLastPass(t) == SwapIf(SwapIf(t, 1, 2), 2, 3)

Sort(t) == SwapIf(SwapIf(SwapIf(t, 1, 2), 2, 3), 1, 2)

\* exact integer square root of a perfect square (the inputs are drawn so
\* that every root the code takes of a model value is an integer)
RECURSIVE NewtonSqrt(_, _)
NewtonSqrt(n, x) ==
    LET y == (x + n \div x) \div 2
    IN  IF y >= x THEN x ELSE NewtonSqrt(n, y)

ISqrt(n) == IF n = 0 THEN 0 ELSE NewtonSqrt(n, n)

SumSq(H) == H.xx * H.xx + H.yy * H.yy + H.zz * H.zz
            + 2 * (H.xy * H.xy + H.xz * H.xz + H.yz * H.yz)

FrobeniusNorm(H) == ISqrt(SumSq(H))

Trace(H) == H.xx + H.yy + H.zz

\* vtkMath::Diagonalize3x3 on a diagonal matrix: the diagonal, in place
Diagonalize3x3(H) == <<H.xx, H.yy, H.zz>>

(***************************************************************************)
(* Hessian eigenvalues (discrete approach)                                 *)
(*                                                                         *)
(* The routines smooth the image (vtkImageGaussianSmooth), differentiate   *)
(* it twice (GetImageDerivativeDiscrete) and then loop over the voxels.    *)
(* The model starts at the per-voxel Hessian H: a field F maps each voxel  *)
(* id to its Hessian.  Fields are drawn from diagonal Hessians whose       *)
(* Frobenius norm is an integer, so that sqrt and the eigenvalues are      *)
(* exact.                                                                  *)
(***************************************************************************)
Zero3 == <<0, 0, 0>>

\* the body of "if (trace < 0) { Diagonalize3x3; Sort }", else l1=l2=l3=0
HessEigen(H) == IF Trace(H) < 0 THEN Sort(Diagonalize3x3(H)) ELSE Zero3

MaxOf(S) == CHOOSE m \in S : \A v \in S : v <= m

FroField(F) == [id \in Ids |-> FrobeniusNorm(F[id])]

\* a < m: the floor without its square root
BelowMax(a, m) == a < m

\* a < sqrt(m) for a >= 0, m >= 0
BelowSqrt(a, m) == a * a < m

\* Lines 1656-1682.  ftresh = sqrt(max of Fro); Fro < ftresh zeroes the voxel.
GetHessianEigenvaluesDiscrete(F) ==
    LET Fro == FroField(F)
        fmax == MaxOf({Fro[id] : id \in Ids})
    IN  [id \in Ids |->
            IF BelowSqrt(Fro[id], fmax) THEN Zero3 ELSE HessEigen(F[id])]

\* int((1.0*nblks*x)/Dim[0])
BlockOf(c, nblks, D) == (nblks * c) \div D

SameBlock(a, b, nblks) ==
    /\ BlockOf(GetX(a), nblks, DimX) = BlockOf(GetX(b), nblks, DimX)
    /\ BlockOf(GetY(a), nblks, DimY) = BlockOf(GetY(b), nblks, DimY)
    /\ GetZ(a) = GetZ(b)

\* FThresh[qx][qy][z] of the voxel's own block before the sqrt: the maximum
\* Frobenius norm of the block's voxels in the plane (the table starts at 0)
FThreshOf(Fro, id, nblks) ==
    MaxOf({0} \cup {Fro[o] : o \in {o \in Ids : SameBlock(o, id, nblks)}})

Interior(id) ==
    /\ GetX(id) > 0 /\ GetX(id) < DimX - 1
    /\ GetY(id) > 0 /\ GetY(id) < DimY - 1
    /\ GetZ(id) > 0 /\ GetZ(id) < DimZ - 1

RECURSIVE NeighSum(_, _, _)
NeighSum(Fro, id, j) ==
    IF j = 0 THEN 0
    ELSE Fro[GetId(GetX(id) + ssdx_sort[j], GetY(id) + ssdy_sort[j],
                   GetZ(id) + ssdz_sort[j])] + NeighSum(Fro, id, j - 1)

\* six times frobneigh: the sum over the 6 neighbours, 0 off the interior
FrobNeigh6(Fro, id) == IF Interior(id) THEN NeighSum(Fro, id, 6) ELSE 0

\* Lines 1744-1795.  frobneigh < sqrt(FThresh) zeroes the voxel:
\* s/6 < sqrt(t)  iff  s*s < 36*t
GetHessianEigenvaluesDiscreteZDependentThreshold(F, nblks) ==
    LET Fro == FroField(F)
    IN  [id \in Ids |->
            IF FrobNeigh6(Fro, id) * FrobNeigh6(Fro, id)
                   < 36 * FThreshOf(Fro, id, nblks)
            THEN Zero3
            ELSE HessEigen(F[id])]

(***************************************************************************)
(* Vesselness                                                              *)
(*                                                                         *)
(* The response is a product of three factors built on exp.  The model     *)
(* holds it as a fixed point number: r stands for r/FP.                    *)
(***************************************************************************)
FP == 10 * 100

VessC == 500

\* exp(-x) for a fixed point x >= 0: halve the argument down to [0, 1/2],
\* sum the series there, square on the way back
RECURSIVE ExpNeg(_)
ExpNeg(x) ==
    IF x > 40 * FP THEN 0
    ELSE IF 2 * x > FP
         THEN LET h == ExpNeg(x \div 2) IN (h * h) \div FP
         ELSE LET t2 == (x * x) \div (2 * FP)
                  t3 == (t2 * x) \div (3 * FP)
                  t4 == (t3 * x) \div (4 * FP)
              IN  FP - x + t2 - t3 + t4

\* ft_new of lines 1839-1848, with rad = rbd = 2 * 0.5 * 0.5 and std = 2*c*c:
\*   ra^2 / rad = 2*l2^2 / l3^2,   rb^2 / rbd = 2*l1^2 / (l2*l3),
\*   st^2 / std = (l1^2 + l2^2 + l3^2) / (2*c*c)
Response(l) ==
    LET xa == (2 * l[2] * l[2] * FP) \div (l[3] * l[3])
        xb == (2 * l[1] * l[1] * FP) \div (l[2] * l[3])
        xs == ((l[1] * l[1] + l[2] * l[2] + l[3] * l[3]) * FP)
                  \div (2 * VessC * VessC)
        fa == FP - ExpNeg(xa)
        fb == ExpNeg(xb)
        fs == FP - ExpNeg(xs)
    IN  (((fa * fb) \div FP) * fs) \div FP

VesselnessEitherNegative(l) ==
    IF (l[2] < 0 \/ l[3] < 0) /\ l[2] /= 0 /\ l[3] /= 0
    THEN Response(l) ELSE 0

\* lines 1837-1853: the response where l2 < 0 and l3 < 0, and 0 elsewhere
Vesselness(l) == IF l[2] < 0 /\ l[3] < 0 THEN Response(l) ELSE 0

(***************************************************************************)
(* The scale loop of MultiscaleVesselness                                  *)
(*                                                                         *)
(* Scales are rationals.  sigmai and sigmaf are integers (in units of the  *)
(* input's resolution) and every scale of a run is held as a numerator     *)
(* over SigmaDen, which makes _dsigma and 0.5*_dsigma integers.            *)
(***************************************************************************)
SigmaDen(m) == IF m.nsigma > 1 THEN 2 * (m.nsigma - 1) ELSE 2

\* main, line 2698: (nsigma > 1) ? (sigmaf - sigmai) / (nsigma - 1) : sigmaf
DSigma(sigmai, sigmaf, nsigma) ==
    IF nsigma > 1 THEN 2 * (sigmaf - sigmai) ELSE 2 * sigmaf

SigmaStart(m) == m.sigmai * SigmaDen(m)

\* sigmaf + 0.5 * dsigma
SigmaLimit(m) == m.sigmaf * SigmaDen(m) + m.dsigma \div 2

\* the scales a run visits
ScalesOf(m) ==
    {s \in SigmaStart(m) .. SigmaLimit(m) :
        \/ s = SigmaStart(m)
        \/ m.dsigma > 0 /\ (s - SigmaStart(m)) % m.dsigma = 0}

FuseOverwrite(vo, vn) == vn

\* lines 2271-2277: if (vn > vo) VSSS = vn
Fuse(vo, vn) == IF vn > vo THEN vn ELSE vo

(***************************************************************************)
(* Inputs of the vesselness stage                                          *)
(***************************************************************************)
Diag(a, b, c) == [xx |-> a, yy |-> b, zz |-> c, xy |-> 0, xz |-> 0, yz |-> 0]

\* Hessians a voxel may hold: flat, tube-like (unsorted), a saddle with
\* negative trace, positive trace, a weak one, a second tube, a tube with a
\* positive smallest eigenvalue
HPool ==
    { Diag(0, 0, 0), Diag(-200, -200, -100), Diag(300, -400, 0),
      Diag(100, 200, 200), Diag(-3, 0, 0), Diag(-400, -400, -700),
      Diag(-600, 200, -300) }

\* the voxels whose Hessian varies: an interior voxel and its +x neighbour
Centre == GetId(1, 1, 1)

CentreXp == GetId(2, 1, 1)

\* what the neighbour may hold
HPoolNeighbour ==
    { Diag(0, 0, 0), Diag(-200, -200, -100), Diag(-400, -400, -700) }

HessFields ==
    { [id \in Ids |-> IF id = Centre THEN a
                      ELSE IF id = CentreXp THEN b ELSE Diag(0, 0, 0)] :
        a \in HPool, b \in HPoolNeighbour }

MitoConfig(si, sf, n, adaptive, nb) ==
    [sigmai |-> si, sigmaf |-> sf, nsigma |-> n,
     dsigma |-> DSigma(si, sf, n),
     adaptive_threshold |-> adaptive, nblks |-> nb]

\* main, lines 2580-2584 and 2611-2619: _nblks is 3 unless -adaptive sets it
VessConfigs ==
    { MitoConfig(sc[1], sc[2], sc[3], FALSE, 3) :
        sc \in {<<2, 3, 2>>, <<2, 2, 1>>} }
    \cup
    { MitoConfig(sc[1], sc[2], sc[3], TRUE, nb) :
        sc \in {<<2, 3, 2>>, <<2, 2, 1>>}, nb \in 1 .. MaxBlks }

ZeroField == [id \in Ids |-> 0]

InitVess ==
    /\ mito \in VessConfigs
    /\ HessOf \in [ScalesOf(mito) -> HessFields]
    /\ sigma = SigmaStart(mito)
    /\ AUX1 = ZeroField
    /\ AUX2 = ZeroField
    /\ AUX3 = ZeroField
    /\ VSSS = ZeroField
    /\ scalesRun = {}
    /\ pcV = "loop"
    /\ ParkedForVess

\* GetVesselness, lines 1827-1831: one of the two Hessian routines
HessianEigenvalues(m, F) ==
    IF m.adaptive_threshold
    THEN GetHessianEigenvaluesDiscreteZDependentThreshold(F, m.nblks)
    ELSE GetHessianEigenvaluesDiscrete(F)

\* loop test passed: GetVesselness runs its Hessian routine for this scale
HessianStep ==
    /\ pcV = "loop"
    /\ sigma <= SigmaLimit(mito)
    /\ LET L == HessianEigenvalues(mito, HessOf[sigma])
       IN  /\ AUX1' = [id \in Ids |-> L[id][1]]
           /\ AUX2' = [id \in Ids |-> L[id][2]]
           /\ AUX3' = [id \in Ids |-> L[id][3]]
    /\ pcV' = "hessian_done"
    /\ UNCHANGED <<mito, HessOf, sigma, VSSS, scalesRun>>
    /\ FrameVess

\* GetVesselness, lines 1833-1855: L1 receives the response
VesselnessStep ==
    /\ pcV = "hessian_done"
    /\ AUX1' = [id \in Ids |-> Vesselness(<<AUX1[id], AUX2[id], AUX3[id]>>)]
    /\ pcV' = "vesselness_done"
    /\ UNCHANGED <<mito, HessOf, sigma, AUX2, AUX3, VSSS, scalesRun>>
    /\ FrameVess

\* lines 2271-2277 and the loop's increment
FuseStep ==
    /\ pcV = "vesselness_done"
    /\ VSSS' = [id \in Ids |-> Fuse(VSSS[id], AUX1[id])]
    /\ scalesRun' = scalesRun \cup {sigma}
    /\ sigma' = sigma + mito.dsigma
    /\ pcV' = "loop"
    /\ UNCHANGED <<mito, HessOf, AUX1, AUX2, AUX3>>
    /\ FrameVess

ScaleLoopExit ==
    /\ pcV = "loop"
    /\ ~(sigma <= SigmaLimit(mito))
    /\ pcV' = "fused"
    /\ UNCHANGED <<mito, HessOf, sigma, AUX1, AUX2, AUX3, VSSS, scalesRun>>
    /\ FrameVess

NextVess ==
    \/ HessianStep
    \/ VesselnessStep
    \/ FuseStep
    \/ ScaleLoopExit

SpecVess == InitVess /\ [][NextVess]_vars

(***************************************************************************)
(* C1.  After either Hessian routine the stored triple of every voxel is   *)
(* ordered by absolute value, |L1| <= |L2| <= |L3|, zeroed voxels          *)
(* included.                                                               *)
(***************************************************************************)
EigenTripleSorted ==
    pcV = "hessian_done" =>
        \A id \in Ids :
            Abs(AUX1[id]) <= Abs(AUX2[id]) /\ Abs(AUX2[id]) <= Abs(AUX3[id])

\* a state after the adaptive routine in which one voxel kept a triple that
\* Sort had to reorder and another voxel was zeroed by the noise floor
EigenTripleSortedWitness ==
    /\ pcV = "hessian_done"
    /\ mito.adaptive_threshold
    /\ \E id \in Ids : AUX1[id] = -100 /\ AUX2[id] = -200 /\ AUX3[id] = -200
    /\ \E id \in Ids :
          /\ Trace(HessOf[sigma][id]) < 0
          /\ AUX1[id] = 0 /\ AUX2[id] = 0 /\ AUX3[id] = 0

(***************************************************************************)
(* C2.  The response GetVesselness writes is 0 at every voxel whose l2 or  *)
(* l3 is not negative.                                                     *)
(***************************************************************************)
ResponseZeroUnlessBothNegative ==
    pcV = "vesselness_done" =>
        \A id \in Ids : (AUX2[id] >= 0 \/ AUX3[id] >= 0) => AUX1[id] = 0

\* a response was written for a voxel with l3 < 0 <= l2 (and it is 0), next
\* to a voxel with a positive response
ResponseZeroWitness ==
    /\ pcV = "vesselness_done"
    /\ \E id \in Ids : AUX2[id] > 0 /\ AUX3[id] < 0 /\ AUX1[id] = 0
    /\ \E id \in Ids : AUX1[id] > 0

(***************************************************************************)
(* C3.  After the scale loop the fused field is, at every voxel, the       *)
(* maximum of 0 and the responses of the executed scales; and no           *)
(* iteration lowers the fused value of a voxel.                            *)
(***************************************************************************)
ResponseAt(s, id) == Vesselness(HessianEigenvalues(mito, HessOf[s])[id])

FusedIsMax ==
    pcV = "fused" =>
        \A id \in Ids :
            VSSS[id] = MaxOf({0} \cup {ResponseAt(s, id) : s \in scalesRun})

FusedNeverDecreases == \A id \in Ids : VSSS'[id] >= VSSS[id]

FusionIsPointwiseMaximum == [](FusedIsMax) /\ [][FusedNeverDecreases]_vars

\* two scales ran, the first gave some voxel the larger response
FusionWitness ==
    /\ pcV = "fused"
    /\ Cardinality(scalesRun) = 2
    /\ \E id \in Ids : \E s1, s2 \in scalesRun :
          /\ s1 < s2
          /\ ResponseAt(s1, id) > ResponseAt(s2, id)
          /\ ResponseAt(s2, id) > 0

(***************************************************************************)
(* IEEE-754 double arithmetic                                              *)
(*                                                                         *)
(* The conversions compute in double and cast the result to an integer     *)
(* type, which truncates: a result that is an integer in exact arithmetic  *)
(* may be stored one lower when a rounding leaves it just under that       *)
(* integer.  A double is modelled by its sign, its significand (a natural  *)
(* of any size during an operation, of at most 53 bits once rounded) and   *)
(* its binary exponent, and every operation is the exact one followed by   *)
(* rounding to nearest, ties to even.  A natural is the sequence of its    *)
(* digits in base 2^15, the least significant first and the most           *)
(* significant one not zero.  No operand here is subnormal or overflows.   *)
(***************************************************************************)
LimbBits == 15

LimbBase == 32768

MantissaBits == 53

\* 2^n for n <= 15
Pow2(n) ==
    <<1, 2, 4, 8, 16, 32, 64, 128, 256, 512, 1024, 2048, 4096, 8192, 16384,
      32768>>[n + 1]

Smaller(a, b) == IF a < b THEN a ELSE b

Larger(a, b) == IF a > b THEN a ELSE b

\* the first n digits of a
Leading(a, used) ==
    IF used = {} THEN <<>>
    ELSE SubSeq(a, 1, CHOOSE i \in used : \A j \in used : j <= i)

\* the digits of a without its leading zeros
BigNorm(a) == Leading(a, {i \in 1 .. Len(a) : a[i] /= 0})

\* for 0 <= n < 2^31
BigFromInt(n) ==
    BigNorm(<<n % LimbBase, (n \div LimbBase) % LimbBase,
              n \div (LimbBase * LimbBase)>>)

Limb(a, i) == IF 1 <= i /\ i <= Len(a) THEN a[i] ELSE 0

\* for a < 2^31
BigToInt(a) ==
    Limb(a, 1) + LimbBase * Limb(a, 2) + LimbBase * LimbBase * Limb(a, 3)

\* the order of two numbers of one length that differ in the places differ
CmpAt(a, b, differ) ==
    IF differ = {} THEN 0
    ELSE IF \E i \in differ : a[i] < b[i] /\ \A j \in differ : j <= i THEN 0 - 1
    ELSE 1

\* -1, 0 or 1 as a < b, a = b or a > b
BigCmp(a, b) ==
    IF Len(a) < Len(b) THEN 0 - 1
    ELSE IF Len(a) > Len(b) THEN 1
    ELSE CmpAt(a, b, {i \in 1 .. Len(a) : a[i] /= b[i]})

\* the digits of the number whose digit sums are t[i] < 2^16: a carry of one
\* enters place i when a lower place overflows and every place between
\* holds 2^15 - 1
CarriedFrom(t) ==
    BigNorm([i \in 1 .. Len(t) |->
                (t[i] + IF \E j \in 1 .. i - 1 :
                              /\ t[j] >= LimbBase
                              /\ \A m \in j + 1 .. i - 1 : t[m] = LimbBase - 1
                        THEN 1 ELSE 0) % LimbBase])

Carried(sums) == CarriedFrom(SubSeq(sums, 1, Len(sums)))

BigAdd(a, b) ==
    IF a = <<>> THEN b
    ELSE IF b = <<>> THEN a
    ELSE Carried([i \in 1 .. Larger(Len(a), Len(b)) + 1 |-> Limb(a, i) + Limb(b, i)])

\* the digits of the number whose digit differences are t[i]: a borrow of one
\* enters place i when a lower place falls below zero and every place between
\* holds zero
BorrowedFrom(t) ==
    BigNorm([i \in 1 .. Len(t) |->
                (t[i] + LimbBase - IF \E j \in 1 .. i - 1 :
                                         /\ t[j] < 0
                                         /\ \A m \in j + 1 .. i - 1 : t[m] = 0
                                   THEN 1 ELSE 0) % LimbBase])

\* a - b, for a >= b
BigSub(a, b) ==
    IF a = <<>> \/ b = <<>> THEN a
    ELSE BorrowedFrom(SubSeq([i \in 1 .. Len(a) |-> a[i] - Limb(b, i)], 1, Len(a)))

\* a * k, for 0 <= k < 2^15: place i receives the low half of a[i] * k and the
\* high half of a[i-1] * k
BigMulSmall(a, k) ==
    IF a = <<>> \/ k = 0 THEN <<>>
    ELSE Carried([i \in 1 .. Len(a) + 1 |->
                     ((Limb(a, i) * k) % LimbBase)
                     + ((Limb(a, i - 1) * k) \div LimbBase)])

ShiftLimbs(a, n) == IF a = <<>> THEN a ELSE [i \in 1 .. n |-> 0] \o a

\* one digit of b multiplied in: st.sum is a times the digits of b below st.i
MulStep(st, a, b) ==
    [sum |-> BigAdd(st.sum, ShiftLimbs(BigMulSmall(a, b[st.i]), st.i - 1)),
     i |-> st.i + 1]

RECURSIVE BigMulFrom(_, _, _)
BigMulFrom(st, a, b) ==
    IF st.i > Len(b) THEN st.sum ELSE BigMulFrom(MulStep(st, a, b), a, b)

\* a * b, a digit of the shorter number at a time
BigMul(a, b) ==
    IF a = <<>> \/ b = <<>> THEN <<>>
    ELSE BigMulFrom([sum |-> <<>>, i |-> 1],
                    IF Len(a) < Len(b) THEN b ELSE a,
                    IF Len(a) < Len(b) THEN a ELSE b)

\* a * 2^n
BigShl(a, n) ==
    IF a = <<>> THEN a
    ELSE ShiftLimbs(BigMulSmall(a, Pow2(n % LimbBits)), n \div LimbBits)

\* floor(a / 2^s) without its lowest drop digits, for s < 15
ShrWithin(a, drop, s) ==
    IF Len(a) <= drop THEN <<>>
    ELSE BigNorm([i \in 1 .. Len(a) - drop |->
                     (Limb(a, drop + i) \div Pow2(s))
                     + ((Limb(a, drop + i + 1) % Pow2(s)) * Pow2(LimbBits - s))])

\* floor(a / 2^n)
BigShr(a, n) == ShrWithin(a, n \div LimbBits, n % LimbBits)

\* the number of bits of a digit
BitLenInt(n) == Cardinality({k \in 0 .. LimbBits - 1 : Pow2(k) <= n})

BitLen(a) ==
    IF a = <<>> THEN 0 ELSE LimbBits * (Len(a) - 1) + BitLenInt(a[Len(a)])

BigOdd(a) == a /= <<>> /\ a[1] % 2 = 1

\* d * b <= r
Fits(d, r, b) == BigCmp(BigMulSmall(b, d), r) <= 0

\* the quotient of the two leading digits of r by the leading digit of b
Estimate(r, b) ==
    Smaller((Limb(r, Len(b) + 1) * LimbBase + Limb(r, Len(b))) \div b[Len(b)],
            LimbBase - 1)

\* the estimate, or the number one or two below it
DigitNear(est, r, b) ==
    IF Fits(est, r, b) THEN est ELSE IF Fits(est - 1, r, b) THEN est - 1 ELSE est - 2

\* the greatest d < 2^15 with d * b <= r, for a divisor b whose leading digit
\* is at least 2^14 and r < b * 2^15: the quotient of the two leading digits
\* of r by the leading digit of b is that d or exceeds it by at most 2
Digit(r, b) == DigitNear(Estimate(r, b), r, b)

\* the digit d of the quotient put below the digits found before, and d * b
\* taken from the remainder
DivTake(st, r, d, b) ==
    [q |-> <<d>> \o st.q, r |-> BigSub(r, BigMulSmall(b, d)), i |-> st.i - 1]

DivBroughtDown(st, r, b) ==
    DivTake(st, r, IF BigCmp(r, b) < 0 THEN 0 ELSE Digit(r, b), b)

\* one step of the long division of a by b: the digit a[st.i + 1] is brought
\* down to the remainder st.r, and the digit of the quotient found there is
\* put below the digits st.q found before
DivStep(st, a, b) == DivBroughtDown(st, BigNorm(<<a[st.i + 1]>> \o st.r), b)

RECURSIVE BigDivFrom(_, _, _)
BigDivFrom(st, a, b) ==
    IF st.i < 0 THEN st ELSE BigDivFrom(DivStep(st, a, b), a, b)

\* long division, a digit at a time from the most significant one.  The
\* leading digits of a, one fewer than b has, are less than b and form the
\* first remainder.
BigDivMod(a, b) ==
    IF Len(a) < Len(b) THEN [q |-> <<>>, r |-> a, i |-> Len(a) - Len(b)]
    ELSE BigDivFrom([q |-> <<>>, r |-> SubSeq(a, Len(a) - Len(b) + 2, Len(a)),
                     i |-> Len(a) - Len(b)], a, b)

\* quotient and remainder of a * k by b * k
DivScaled(a, b, k) == BigDivMod(BigMulSmall(a, k), BigMulSmall(b, k))

\* quotient and remainder after both numbers are doubled until the leading
\* digit of b has 15 bits: the remainder is zero when that of a by b is
BigQuotRem(a, b) ==
    IF a = <<>> THEN [q |-> <<>>, r |-> <<>>, i |-> 0]
    ELSE DivScaled(a, b, Pow2(LimbBits - BitLenInt(b[Len(b)])))

\* floor(a / b)
BigDiv(a, b) == BigNorm(BigQuotRem(a, b).q)

\* the root of head, rounded up, for head < 2^15
RootAbove(head) ==
    CHOOSE x \in 1 .. 182 : (x - 1) * (x - 1) <= head /\ head < x * x

SeedAt(n, k) == BigShl(BigFromInt(RootAbove(BigToInt(BigShr(n, 2 * k)))), k)

\* an estimate of sqrt(n) that is not below it: the root of the leading 14 or
\* 15 bits of n, rounded up, in the place of the bits left out
SqrtSeed(n) == SeedAt(n, IF BitLen(n) > 14 THEN (BitLen(n) - 14) \div 2 ELSE 0)

\* the next estimate y after x is kept while it decreases
NewtonNext(x, y) ==
    IF BigCmp(y, x) >= 0 THEN [x |-> x, done |-> TRUE]
    ELSE [x |-> y, done |-> FALSE]

\* one step of Newton's iteration for sqrt(n) from an estimate st.x that is
\* not below it: the estimates decrease until floor(sqrt(n)) is reached
NewtonStep(st, n) ==
    NewtonNext(st.x, BigShr(BigAdd(st.x, BigDiv(n, st.x)), 1))

RECURSIVE BigNewtonSqrt(_, _)
BigNewtonSqrt(st, n) ==
    IF st.done THEN st.x ELSE BigNewtonSqrt(NewtonStep(st, n), n)

\* floor(sqrt(n))
BigSqrt(n) ==
    IF n = <<>> THEN n ELSE BigNewtonSqrt([x |-> SqrtSeed(n), done |-> FALSE], n)

Double(neg, m, e) == [neg |-> neg, m |-> m, e |-> e]

\* the bits left out are more than half a unit of the bits kept, or half a
\* unit next to an odd number
RoundsUp(c, kept) == c > 0 \/ (c = 0 /\ BigOdd(kept))

RoundKept(neg, m, e, drop, kept) ==
    Double(neg,
           IF RoundsUp(BigCmp(BigSub(m, BigShl(kept, drop)), BigShl(<<1>>, drop - 1)),
                       kept)
           THEN BigAdd(kept, <<1>>) ELSE kept,
           e + drop)

RoundOff(neg, m, e, drop) ==
    IF drop <= 0 THEN Double(neg, m, e)
    ELSE RoundKept(neg, m, e, drop, BigShr(m, drop))

\* rounding to nearest, ties to even, of m * 2^e to 53 bits
Round53(neg, m, e) == RoundOff(neg, m, e, BitLen(m) - MantissaBits)

Rounded(x) == Round53(x.neg, x.m, x.e)

\* an integer of the program, as a double
FromInt(n) ==
    IF n < 0 THEN Double(TRUE, BigFromInt(0 - n), 0)
    ELSE Double(FALSE, BigFromInt(n), 0)

FNeg(x) == Double(~x.neg, x.m, x.e)

\* a * 2^e with the sign xneg added to b * 2^e with the sign yneg
SumAligned(xneg, a, yneg, b, e) ==
    IF xneg = yneg THEN Double(xneg, BigAdd(a, b), e)
    ELSE IF BigCmp(a, b) >= 0 THEN Double(xneg, BigSub(a, b), e)
    ELSE Double(yneg, BigSub(b, a), e)

SumAt(x, y, e) ==
    SumAligned(x.neg, BigShl(x.m, x.e - e), y.neg, BigShl(y.m, y.e - e), e)

\* x + y, not rounded
ExactSum(x, y) ==
    IF x.m = <<>> THEN y
    ELSE IF y.m = <<>> THEN x
    ELSE SumAt(x, y, Smaller(x.e, y.e))

\* x + y
FAdd(x, y) == Rounded(ExactSum(x, y))

\* x - y
FSub(x, y) == FAdd(x, FNeg(y))

\* x * y
FMul(x, y) ==
    IF x.m = <<>> \/ y.m = <<>> THEN Double(x.neg /= y.neg, <<>>, 0)
    ELSE Round53(x.neg /= y.neg, BigMul(x.m, y.m), x.e + y.e)

\* the quotient with one more bit, set when the division left a remainder
WithSticky(qr) ==
    BigAdd(BigMulSmall(BigNorm(qr.q), 2), IF qr.r = <<>> THEN <<>> ELSE <<1>>)

QuotientAt(x, y, s) ==
    Round53(x.neg /= y.neg, WithSticky(BigQuotRem(BigShl(x.m, s), y.m)),
            x.e - y.e - s - 1)

\* x / y, for y /= 0 (every caller tests the divisor first): the quotient to
\* 55 bits or more, with one more bit that is set when the division left a
\* remainder
FDiv(x, y) ==
    IF x.m = <<>> \/ y.m = <<>> THEN Double(x.neg /= y.neg, <<>>, 0)
    ELSE QuotientAt(x, y, Larger(0, MantissaBits + 2 + BitLen(y.m) - BitLen(x.m)))

\* the root r of n with one more bit, set when r * r is not n
RootSticky(n, r) ==
    BigAdd(BigMulSmall(r, 2), IF BigMul(r, r) = n THEN <<>> ELSE <<1>>)

RootOf(n, e) == Round53(FALSE, RootSticky(n, BigSqrt(n)), e)

\* the significand is doubled s times, or once more for an even exponent
RootAt(x, s) ==
    IF (x.e - s) % 2 = 0 THEN RootOf(BigShl(x.m, s), (x.e - s) \div 2 - 1)
    ELSE RootOf(BigShl(x.m, s + 1), (x.e - s - 1) \div 2 - 1)

\* sqrt(x), for x >= 0: the root of the significand to 55 bits or more, with
\* one more bit that is set when the root is not exact
FSqrt(x) ==
    IF x.m = <<>> THEN x
    ELSE RootAt(x, Larger(0, 2 * (MantissaBits + 2) - BitLen(x.m)))

\* x < 0
Negative(x) == x.neg /\ x.m /= <<>>

\* x < y
FLess(x, y) == Negative(ExactSum(x, FNeg(y)))

\* x > 0
Positive(x) == ~x.neg /\ x.m /= <<>>

\* x = y as numbers: one number has several pairs of significand and exponent
FEq(x, y) == ExactSum(x, FNeg(y)).m = <<>>

\* k * x for an integer k > 0, not rounded: Scaled(x, q) is compared with an
\* integer p to place x against the fraction p / q
Scaled(x, k) == Double(x.neg, BigMul(x.m, BigFromInt(k)), x.e)

\* the least and the greatest of a set of doubles
FMinOf(S) == CHOOSE m \in S : \A v \in S : ~FLess(v, m)

FMaxOf(S) == CHOOSE m \in S : \A v \in S : ~FLess(m, v)

\* DBL_MIN of <cfloat>
DblMin == Double(FALSE, <<1>>, 0 - 1022)

\* the power of two above x: 2^(Binade(x) - 1) <= x < 2^Binade(x)
Binade(x) == BitLen(x.m) + x.e

\* the significand of x /= 0 written with 53 bits
Significand(x) == BigShl(x.m, MantissaBits - BitLen(x.m))

\* the units of spacing left between s and the next power of two
Room(s) == BigSub(BigShl(<<1>>, MantissaBits), BigAdd(Significand(s), <<1>>))

\* j more additions of inc units of spacing, taken together
AddLanded(st, s3, inc, j) ==
    [s |-> Double(FALSE, BigAdd(Significand(s3), BigMul(inc, BigFromInt(j))),
                  Binade(s3) - MantissaBits),
     k |-> st.k - 3 - j]

\* as many of the additions left as stay below the next power of two
AddWithin(st, s3, inc, most) ==
    AddLanded(st, s3, inc,
              IF BigCmp(most, BigFromInt(st.k - 3)) > 0 THEN st.k - 3
              ELSE BigToInt(most))

AddBy(st, s3, inc) ==
    IF inc = <<>> THEN [s |-> s3, k |-> 0]
    ELSE AddWithin(st, s3, inc, BigDiv(Room(s3), inc))

AddThree(st, s1, s2, s3) ==
    IF Binade(s1) /= Binade(s2) \/ Binade(s2) /= Binade(s3)
    THEN [s |-> s1, k |-> st.k - 1]
    ELSE AddBy(st, s3, BigSub(Significand(s3), Significand(s2)))

AddTwo(st, c, s1, s2) == AddThree(st, s1, s2, FAdd(s2, c))

AddOne(st, c, s1) ==
    IF st.k <= 3 THEN [s |-> s1, k |-> st.k - 1]
    ELSE AddTwo(st, c, s1, FAdd(s1, c))

\* One step of the repeated addition s += c with st.k additions left.  Once
\* three sums in a row lie between the same two powers of two, every further
\* sum below the upper power exceeds the one before it by the same multiple
\* of the spacing of the doubles there (after a tie the sum has an even
\* significand, so ties keep rounding the same way): those additions are
\* taken together.  Any other addition is made on its own.
AddStep(st, c) == IF st.k = 0 THEN st ELSE AddOne(st, c, FAdd(st.s, c))

RECURSIVE AddFrom(_, _)
AddFrom(st, c) == IF st.k = 0 THEN st.s ELSE AddFrom(AddStep(st, c), c)

\* s after k executions of s += c, for s >= 0 and c >= 0
AddRepeated(s, c, k) ==
    IF c.m = <<>> THEN s ELSE AddFrom([s |-> s, k |-> k], c)

Signed(neg, n) == IF neg THEN 0 - n ELSE n

\* the conversion to an integer type: the fraction is discarded
Truncate(x) ==
    Signed(x.neg, BigToInt(IF x.e >= 0 THEN BigShl(x.m, x.e)
                           ELSE BigShr(x.m, 0 - x.e)))

\* the double a decimal literal or a parsed decimal with two places denotes
Decimal(h, den) == FDiv(FromInt(h), FromInt(den))

(***************************************************************************)
(* Intensity normalisation                                                 *)
(*                                                                         *)
(* 255.0*(val-min)/range is an exact product and a correctly rounded       *)
(* quotient of two integers, so its truncation is the integer quotient.    *)
(* The gentle policy multiplies by the rounded 255/range, divides the      *)
(* block sum by the block size and multiplies by decimal factors: these    *)
(* are computed in double, rounding by rounding.                           *)
(* A NaN (0/0) converted to unsigned char is undefined: the operators      *)
(* take the value it yields as the parameter nan.                          *)
(***************************************************************************)
MinOf(S) == CHOOSE m \in S : \A v \in S : m <= v

RECURSIVE SumOver(_, _)
SumOver(f, S) ==
    IF S = {} THEN 0
    ELSE LET o == CHOOSE o \in S : TRUE IN f[o] + SumOver(f, S \ {o})

\* (unsigned char) of a non-negative value
ToUChar(v) == v % 256

Scale256(val, lo, range) == ToUChar((256 * (val - lo)) \div range)

\* (unsigned char)(255.0 * (val - lo) / range)
Scale255(val, lo, range) == ToUChar((255 * (val - lo)) \div range)

PlaneIds(z) == {o \in Ids : GetZ(o) = z}

ZStart(z, bs) == (z \div bs) * bs

ZEnd(zs, bs) == IF zs + bs < DimZ THEN zs + bs ELSE DimZ

\* the voxels of the z-block that holds plane z
BlockIds(z, bs) ==
    {o \in Ids : GetZ(o) >= ZStart(z, bs) /\ GetZ(o) < ZEnd(ZStart(z, bs), bs)}

Values(img, S) == {img[o] : o \in S}

\* Convert16To8bit, lines 626-649
Convert16To8bit(img, nan) ==
    LET g0 == MinOf(Values(img, Ids))
        g1 == MaxOf(Values(img, Ids))
    IN  [id \in Ids |->
            IF g1 > g0 THEN Scale255(img[id], g0, g1 - g0) ELSE nan]

\* Convert16To8bitZAdaptive, lines 681-717.  z_max starts at DBL_MIN, the
\* smallest positive double: over an all-zero plane it stays there, z_range
\* is DBL_MIN > 0 and every voxel gets 255*0/DBL_MIN = 0.
Convert16To8bitZAdaptive(img) ==
    [id \in Ids |->
        LET vals == Values(img, PlaneIds(GetZ(id)))
            z_min == MinOf(vals)
            z_max == MaxOf(vals)
        IN  IF z_max > z_min THEN Scale255(img[id], z_min, z_max - z_min)
            ELSE IF z_max = 0 THEN 0
            ELSE 128]

\* line 778: block_range < global_range_size * 0.1, both ranges integers
BelowTenth(block_range, global_range_size) ==
    FLess(FromInt(block_range), FMul(FromInt(global_range_size), Decimal(1, 10)))

\* Convert16To8bitZAdaptiveBlocks, lines 757-813
Convert16To8bitZAdaptiveBlocks(img, bs, nan) ==
    LET g0 == MinOf(Values(img, Ids))
        g1 == MaxOf(Values(img, Ids))
    IN  [id \in Ids |->
            LET vals == Values(img, BlockIds(GetZ(id), bs))
                block_min == MinOf(vals)
                block_max == MaxOf(vals)
                \* block_range < global_range_size * 0.1, where an all-zero
                \* block has block_range = DBL_MIN
                useGlobal == IF block_max = 0 THEN g1 - g0 > 0
                             ELSE BelowTenth(block_max - block_min, g1 - g0)
            IN  IF useGlobal THEN Scale255(img[id], g0, g1 - g0)
                ELSE IF block_max > block_min
                     THEN Scale255(img[id], block_min, block_max - block_min)
                ELSE IF block_max = 0 THEN 0
                ELSE nan]

\* lines 888-900: the enhancement factor chosen by the block mean.  The
\* mean is the rounded sum/pixels and rounding is monotonic, so it is below
\* an integer bound exactly when sum/pixels is.
EnhancementFactor(sum, pixels) ==
    IF sum < 20 * pixels THEN FromInt(3)
    ELSE IF sum < 50 * pixels THEN Decimal(25, 10)
    ELSE IF sum < 100 * pixels THEN Decimal(15, 10)
    ELSE IF sum < 150 * pixels THEN Decimal(12, 10)
    ELSE Decimal(11, 10)

\* lines 911-917: (unsigned char) of block_mean + factor * (val - block_mean),
\* clamped to [0, 255]
Enhance(val, sum, pixels) ==
    LET block_mean == FDiv(FromInt(sum), FromInt(pixels))
        enhanced == FAdd(block_mean,
                         FMul(EnhancementFactor(sum, pixels),
                              FSub(FromInt(val), block_mean)))
    IN  IF FLess(enhanced, FromInt(0)) THEN 0
        ELSE IF FLess(FromInt(255), enhanced) THEN 255
        ELSE ToUChar(Truncate(enhanced))

\* lines 852-856: global_scale = 255.0 / range is rounded before it is
\* multiplied by val - lo
GlobalScale(val, lo, range) ==
    ToUChar(Truncate(FMul(FDiv(FromInt(255), FromInt(range)), FromInt(val - lo))))

\* a function written out as the table of its values
Table(f) == f @@ <<>>

\* the doubles that the samples of img, in units of 1/den, stand for; equal
\* samples stand for the same double, so the conversion is tabulated by sample
DoubleField(img, den) ==
    LET double == Table([v \in {img[id] : id \in DOMAIN img} |-> Decimal(v, den)])
    IN  Table([id \in DOMAIN img |-> double[img[id]]])

\* lines 843-857: the global pass; a range of 0 gives inf * 0, a NaN.  Equal
\* raw values get equal results, so the pass is tabulated by raw value.
GlobalPass(img, nan) ==
    LET g0 == MinOf(Values(img, Ids))
        g1 == MaxOf(Values(img, Ids))
        scaled == Table([v \in Values(img, Ids) |->
                            IF g1 > g0 THEN GlobalScale(v, g0, g1 - g0) ELSE nan])
    IN  Table([id \in Ids |-> scaled[img[id]]])

\* lines 860-921: one z-block, tabulated by the value a voxel holds after
\* the global pass
EnhanceBlock(G, B) ==
    LET vals == Values(G, B)
        block_sum == SumOver(G, B)
        block_pixels == Cardinality(B)
    IN  Table([v \in vals |->
                  IF MaxOf(vals) - MinOf(vals) > 0
                  THEN Enhance(v, block_sum, block_pixels)
                  ELSE v])

\* Convert16To8bitZAdaptiveGentle, lines 851-924
Convert16To8bitZAdaptiveGentle(img, bs, nan) ==
    LET G == GlobalPass(img, nan)
        starts == {ZStart(z, bs) : z \in 0 .. DimZ - 1}
        enhanced == Table([zs \in starts |-> EnhanceBlock(G, BlockIds(zs, bs))])
    IN  Table([id \in Ids |-> enhanced[ZStart(GetZ(id), bs)][G[id]]])

\* what (unsigned char)NaN may yield
NaNCast == {0, 255}

(***************************************************************************)
(* Inputs of the normalisation policies                                    *)
(***************************************************************************)
RawPool == {0, 256, 512, 1024}

RawBackground == {0, 26, 256}

NormSupport == <<GetId(0, 0, 0), GetId(1, 0, 0), GetId(0, 0, 1), GetId(1, 1, 2)>>

NormImages ==
    { [id \in Ids |->
          IF id = NormSupport[1] THEN v[1]
          ELSE IF id = NormSupport[2] THEN v[2]
          ELSE IF id = NormSupport[3] THEN v[3]
          ELSE IF id = NormSupport[4] THEN v[4]
          ELSE bg] :
        v \in [1 .. 4 -> RawPool], bg \in RawBackground }

InitNorm ==
    /\ scalarType \in {"VTK_UNSIGNED_SHORT", "VTK_UNSIGNED_CHAR", "VTK_FLOAT"}
    /\ Image16 \in NormImages
    /\ scalarType /= "VTK_UNSIGNED_SHORT" =>
           \A id \in Ids : Image16[id] = 0
    /\ block_size \in 1 .. MaxBlockSize
    /\ Image8 = "-"
    /\ pcN = "start"
    /\ ParkedForNorm

\* the dispatch on the scalar type shared by the four routines
Converted(result) ==
    IF scalarType = "VTK_UNSIGNED_CHAR" THEN Image16
    ELSE IF scalarType = "VTK_UNSIGNED_SHORT" THEN result
    ELSE "NULL"

RunConvert16To8bit ==
    /\ pcN = "start"
    /\ \E nan \in NaNCast : Image8' = Converted(Convert16To8bit(Image16, nan))
    /\ pcN' = "global"
    /\ UNCHANGED <<scalarType, Image16, block_size>>
    /\ FrameNorm

RunConvert16To8bitZAdaptive ==
    /\ pcN = "start"
    /\ Image8' = Converted(Convert16To8bitZAdaptive(Image16))
    /\ pcN' = "plane"
    /\ UNCHANGED <<scalarType, Image16, block_size>>
    /\ FrameNorm

RunConvert16To8bitZAdaptiveBlocks ==
    /\ pcN = "start"
    /\ \E nan \in NaNCast :
          Image8' = Converted(
                      Convert16To8bitZAdaptiveBlocks(Image16, block_size, nan))
    /\ pcN' = "blocks"
    /\ UNCHANGED <<scalarType, Image16, block_size>>
    /\ FrameNorm

RunConvert16To8bitZAdaptiveGentle ==
    /\ pcN = "start"
    /\ \E nan \in NaNCast :
          Image8' = Converted(
                      Convert16To8bitZAdaptiveGentle(Image16, block_size, nan))
    /\ pcN' = "gentle"
    /\ UNCHANGED <<scalarType, Image16, block_size>>
    /\ FrameNorm

NextNorm ==
    \/ RunConvert16To8bit
    \/ RunConvert16To8bitZAdaptive
    \/ RunConvert16To8bitZAdaptiveBlocks
    \/ RunConvert16To8bitZAdaptiveGentle

SpecNorm == InitNorm /\ [][NextNorm]_vars

(***************************************************************************)
(* C4.  The per-plane, per-block and gentle per-block policies are         *)
(* monotonic: for two voxels a, b of one plane (one z-block) whose range   *)
(* is > 0, input(a) <= input(b) implies output(a) <= output(b).            *)
(***************************************************************************)
\* the plane, or the z-block, that the policy which ran treats as one unit
RegionOf(z) ==
    IF pcN = "plane" THEN PlaneIds(z) ELSE BlockIds(z, block_size)

RangeOf(S) == MaxOf(Values(Image16, S)) - MinOf(Values(Image16, S))

NormalizationMonotonic ==
    (pcN \in {"plane", "blocks", "gentle"} /\ scalarType /= "VTK_FLOAT") =>
        \A z \in 0 .. (DimZ - 1) :
            LET R == RegionOf(z)
            IN  RangeOf(R) > 0 =>
                    \A a, b \in R :
                        Image16[a] <= Image16[b] => Image8[a] <= Image8[b]

\* the gentle policy ran on a 16-bit block of positive range and separated
\* two of its voxels, one of them clamped at 255
NormalizationMonotonicWitness ==
    /\ pcN = "gentle"
    /\ scalarType = "VTK_UNSIGNED_SHORT"
    /\ \E a, b \in Ids :
          /\ b \in RegionOf(GetZ(a))
          /\ Image16[a] < Image16[b]
          /\ 0 < Image8[a] /\ Image8[a] < Image8[b] /\ Image8[b] = 255

(***************************************************************************)
(* Binarization with a fixed threshold                                     *)
(*                                                                         *)
(* The field and the threshold drawn here are in hundredths; the routine   *)
(* works on the doubles they stand for, and the returned unsigned chars    *)
(* are plain integers.                                                     *)
(***************************************************************************)
Hundredths == 10 * 10

ThresholdVoxelStrict(x, t) == IF FLess(x, t) THEN 0 ELSE 255

\* lines 954-958: if (x<=threshold) 0 else 255
ThresholdVoxel(x, t) == IF FLess(t, x) THEN 255 ELSE 0

\* line 964: (int)(255*(x-range[0])/(range[1]-range[0])), stored as uchar
RescaleVoxel(x, r0, r1, nan) ==
    IF FLess(r0, r1)
    THEN ToUChar(Truncate(FDiv(FMul(FromInt(255), FSub(x, r0)), FSub(r1, r0))))
    ELSE nan

\* lines 952-966, for a field of doubles; range is the least and the
\* greatest sample (GetRange)
BinarizeAndConvertDoubleToChar(img, t, nan) ==
    LET r0 == FMinOf(Values(img, Ids))
        r1 == FMaxOf(Values(img, Ids))
    IN  Table([id \in Ids |->
                  IF Positive(t) THEN ThresholdVoxel(img[id], t)
                  ELSE RescaleVoxel(img[id], r0, r1, nan)])

\* 0, values below 1, a value above 1 and 255
BinPool == {0, 5, 50, 150, 255 * Hundredths}

BinThresholds == {-50, 0, 5, 50, 99, 150}

BinSupport == <<GetId(0, 0, 0), GetId(1, 1, 1), GetId(2, 2, 2)>>

\* the value of the voxels off the support: 0, or 0.07
BinBackground == {0, 7}

BinImages ==
    { [id \in Ids |->
          IF id = BinSupport[1] THEN v[1]
          ELSE IF id = BinSupport[2] THEN v[2]
          ELSE IF id = BinSupport[3] THEN v[3]
          ELSE bg] :
        v \in [1 .. 3 -> BinPool], bg \in BinBackground }

InitBin ==
    /\ ImageD \in BinImages
    /\ threshold \in BinThresholds
    /\ Binary = "-"
    /\ pcB = "start"
    /\ ParkedForBin

Binarize ==
    /\ pcB = "start"
    /\ \E nan \in NaNCast :
          Binary' = BinarizeAndConvertDoubleToChar(
                        DoubleField(ImageD, Hundredths),
                        Decimal(threshold, Hundredths), nan)
    /\ pcB' = "done"
    /\ UNCHANGED <<ImageD, threshold>>
    /\ FrameBin

NextBin == Binarize

SpecBin == InitBin /\ [][NextBin]_vars

(***************************************************************************)
(* C5.  With threshold > 0 every output voxel is 255 if its input is       *)
(* > threshold and 0 otherwise; hence a grid of 0s and 255s binarized      *)
(* with a threshold in (0,1) is returned unchanged.                        *)
(***************************************************************************)
IsBinaryGrid(img) == \A id \in Ids : img[id] \in {0, 255 * Hundredths}

FixedThresholdRule ==
    (pcB = "done" /\ threshold > 0) =>
        /\ \A id \in Ids :
              /\ ImageD[id] > threshold => Binary[id] = 255
              /\ ~(ImageD[id] > threshold) => Binary[id] = 0
        /\ (IsBinaryGrid(ImageD) /\ threshold < Hundredths) =>
              \A id \in Ids : Binary[id] * Hundredths = ImageD[id]

\* a grid holding both 0 and 255 went through with a threshold in (0,1)
FixedThresholdWitness ==
    /\ pcB = "done"
    /\ threshold > 0 /\ threshold < Hundredths
    /\ IsBinaryGrid(ImageD)
    /\ \E a, b \in Ids : Binary[a] = 0 /\ Binary[b] = 255
    /\ \A id \in Ids : Binary[id] * Hundredths = ImageD[id]

(***************************************************************************)
(* Component filter                                                        *)
(*                                                                         *)
(* LabelConnectedComponents is not part of src/MitoGraph.cxx.  Its result  *)
(* is modelled by its interface: a signed per-voxel label (-k for the      *)
(* voxels of component k, 0 elsewhere), the voxel count of every label     *)
(* and the number of labels.  Which voxels share a label is left open.     *)
(***************************************************************************)

FiltPool == {0, 3, 20}

\* _div_threshold, in hundredths
FiltThreshold == 10

FiltSupport ==
    <<GetId(1, 1, 0), GetId(1, 1, 1), GetId(1, 1, 2), GetId(0, 1, 1)>>

FiltImages ==
    { [id \in Ids |->
          IF id = FiltSupport[1] THEN v[1]
          ELSE IF id = FiltSupport[2] THEN v[2]
          ELSE IF id = FiltSupport[3] THEN v[3]
          ELSE IF id = FiltSupport[4] THEN v[4]
          ELSE 0] :
        v \in [1 .. 4 -> FiltPool] }

\* the voxels the labeler includes
Included(img) == {id \in Ids : img[id] > FiltThreshold}

\* the assignments of labels 1..n to the included voxels that use every label
LabelAssignments(img, n) ==
    {a \in [Included(img) -> 1 .. n] : \A k \in 1 .. n : \E id \in Included(img) : a[id] = k}

\* the labeler's result for one assignment
Labeling(img, n, a) ==
    [Volume |-> [id \in Ids |-> IF id \in Included(img) THEN -a[id] ELSE 0],
     CSz |-> [k \in 1 .. n |-> Cardinality({id \in Included(img) : a[id] = k})],
     ncc |-> n]

\* the (Volume, CSz, ncc) triples the labeler may return for img
Labelings(img) ==
    UNION { {Labeling(img, n, a) : a \in LabelAssignments(img, n)} :
              n \in 0 .. Cardinality(Included(img)) }

FilterVoxelStrict(v, cluster, csz, min_component_size) ==
    IF cluster < 0 /\ csz[-cluster] < min_component_size THEN 0 ELSE v

\* lines 2328-2333; CSz[-cluster-1] of the code is csz[-cluster] here
FilterVoxel(v, cluster, csz, min_component_size) ==
    IF cluster < 0 /\ csz[-cluster] <= min_component_size THEN 0 ELSE v

\* lines 2319-2335
ComponentFilter(img, vol, csz, n, cfg) ==
    IF n > 1 /\ cfg.smart_component_filtering
    THEN [id \in Ids |-> FilterVoxel(img[id], vol[id], csz, cfg.min_component_size)]
    ELSE img

InitFilt ==
    /\ ImageBefore \in FiltImages
    /\ ImageEnhanced = ImageBefore
    /\ Volume = [id \in Ids |-> 0]
    /\ CSz = <<>>
    /\ ncc = 0
    /\ filterCfg \in [smart_component_filtering : BOOLEAN,
                      min_component_size : 1 .. MaxMinSize]
    /\ pcF = "start"
    /\ ParkedForFilt

LabelConnectedComponents ==
    /\ pcF = "start"
    /\ \E L \in Labelings(ImageEnhanced) :
          /\ Volume' = L.Volume
          /\ CSz' = L.CSz
          /\ ncc' = L.ncc
    /\ pcF' = "labelled"
    /\ UNCHANGED <<ImageBefore, ImageEnhanced, filterCfg>>
    /\ FrameFilt

RemoveSmallComponents ==
    /\ pcF = "labelled"
    /\ ImageEnhanced' = ComponentFilter(ImageEnhanced, Volume, CSz, ncc, filterCfg)
    /\ pcF' = "filtered"
    /\ UNCHANGED <<ImageBefore, Volume, CSz, ncc, filterCfg>>
    /\ FrameFilt

NextFilt == LabelConnectedComponents \/ RemoveSmallComponents

SpecFilt == InitFilt /\ [][NextFilt]_vars

(***************************************************************************)
(* C6.  As claimed: whenever filtering is enabled, for every labeling      *)
(* (also one with a single component) every voxel of a component of size   *)
(* <= the minimum is 0 after the filter, every other voxel keeps its       *)
(* value, and no zero voxel becomes nonzero.                               *)
(* As amended: the same, provided the labeler returned more than one       *)
(* component; with at most one component, or with filtering disabled, the  *)
(* filter changes no voxel.                                                *)
(***************************************************************************)
InSmallComponent(id) ==
    Volume[id] < 0 /\ CSz[-Volume[id]] <= filterCfg.min_component_size

FilterEffect(applies) ==
    \A id \in Ids :
        /\ (applies /\ InSmallComponent(id)) => ImageEnhanced[id] = 0
        /\ ~(applies /\ InSmallComponent(id)) => ImageEnhanced[id] = ImageBefore[id]
        /\ ImageBefore[id] = 0 => ImageEnhanced[id] = 0

FilterZeroesEverySmallComponent ==
    (pcF = "filtered" /\ filterCfg.smart_component_filtering) =>
        FilterEffect(TRUE)

FilterZeroesSmallAmongSeveral ==
    pcF = "filtered" =>
        FilterEffect(filterCfg.smart_component_filtering /\ ncc > 1)

\* two components, one at the minimum size and zeroed, one larger and kept,
\* and an unlabelled nonzero voxel kept
FilterWitness ==
    /\ pcF = "filtered"
    /\ filterCfg.smart_component_filtering
    /\ ncc = 2
    /\ \E a, b, c \in Ids :
          /\ InSmallComponent(a) /\ CSz[-Volume[a]] = filterCfg.min_component_size
          /\ ImageBefore[a] > 0 /\ ImageEnhanced[a] = 0
          /\ Volume[b] < 0 /\ ~InSmallComponent(b) /\ ImageEnhanced[b] > 0
          /\ Volume[c] = 0 /\ ImageEnhanced[c] > 0

(***************************************************************************)
(* Skeleton graph: fragment repair and attribute extraction                *)
(*                                                                         *)
(* Point ids are 1-based here (0-based in the code).  Coordinates are      *)
(* integers: voxel units out of the thinning, tenths of a micron after     *)
(* ScalePolyData.  Widths are in tenths of a micron, radii in twentieths,  *)
(* volumes in units of pi/4000 cubic microns.  The skeletons are drawn so  *)
(* that every segment of an edge has an integer length; the comparisons    *)
(* of the repair are made on squared distances and are exact.              *)
(***************************************************************************)
Range(s) == {s[i] : i \in DOMAIN s}

Dist2(p, q) ==
    (p[1] - q[1]) * (p[1] - q[1]) + (p[2] - q[2]) * (p[2] - q[2])
        + (p[3] - q[3]) * (p[3] - q[3])

\* sqrt(pow(..,2)+pow(..,2)+pow(..,2))
Dist(p, q) == ISqrt(Dist2(p, q))

\* distance <= max_gap_distance && distance > 0.1, with the gap in tenths
WithinGapStrict(d2, gap10) == 100 * d2 < gap10 * gap10 /\ 100 * d2 > 1

WithinGap(d2, gap10) == 100 * d2 <= gap10 * gap10 /\ 100 * d2 > 1

Occurrences(c, p) == Cardinality({i \in DOMAIN c : c[i] = p})

RECURSIVE DegreeUpTo(_, _, _)
\* GetPointCells lists a cell once per use of the point; the cell counts
\* when the point is its first or its last point
DegreeUpTo(L, p, e) ==
    IF e = 0 THEN 0
    ELSE DegreeUpTo(L, p, e - 1)
         + (IF L[e][1] = p \/ L[e][Len(L[e])] = p THEN Occurrences(L[e], p) ELSE 0)

DegreeOncePerCell(L, p) ==
    Cardinality({e \in DOMAIN L : L[e][1] = p \/ L[e][Len(L[e])] = p})

Degree(L, p) == DegreeUpTo(L, p, Len(L))

\* the degree-1 points, in increasing id order
Endpoints(P, L) ==
    SelectSeq([p \in 1 .. Len(P) |-> p], LAMBDA p : Degree(L, p) = 1)

RECURSIVE ConnectionsFrom(_, _, _, _, _)
\* the loops over i and j > i of lines 1365-1390
ConnectionsFrom(P, E, i, j, gap10) ==
    IF i > Len(E) THEN <<>>
    ELSE IF j > Len(E) THEN ConnectionsFrom(P, E, i + 1, i + 2, gap10)
    ELSE (IF WithinGap(Dist2(P[E[i]], P[E[j]]), gap10)
          THEN << <<E[i], E[j]>> >> ELSE <<>>)
         \o ConnectionsFrom(P, E, i, j + 1, gap10)

ConnectSkeletonFragmentsNewOnly(P, L, gap10) ==
    ConnectionsFrom(P, Endpoints(P, L), 1, 2, gap10)

\* the cells of the returned skeleton: the old ones, then the new lines
ConnectSkeletonFragments(P, L, gap10) ==
    L \o ConnectionsFrom(P, Endpoints(P, L), 1, 2, gap10)

RECURSIVE Flatten(_, _)
\* the point ids in the order the cells use them
Flatten(L, e) == IF e = 0 THEN <<>> ELSE Flatten(L, e - 1) \o L[e]

RECURSIVE MergedPoints(_, _, _)
\* vtkCleanPolyData inserts the points into a locator as the cells use them:
\* a point is kept when no point kept before it has its coordinates
MergedPoints(P, visits, k) ==
    IF k = 0 THEN <<>>
    ELSE LET kept == MergedPoints(P, visits, k - 1)
         IN  IF \E i \in DOMAIN kept : P[kept[i]] = P[visits[k]]
             THEN kept ELSE Append(kept, visits[k])

\* the id, in the cleaned skeleton, of point p
CleanId(P, kept, p) == CHOOSE i \in DOMAIN kept : P[kept[i]] = P[p]

RECURSIVE CleanCell(_, _, _, _)
\* a point of a line that repeats the one before it is dropped
CleanCell(P, kept, c, n) ==
    IF n = 0 THEN <<>>
    ELSE LET rest == CleanCell(P, kept, c, n - 1)
             id == CleanId(P, kept, c[n])
         IN  IF rest /= <<>> /\ rest[Len(rest)] = id THEN rest ELSE Append(rest, id)

\* vtkCleanPolyData with its defaults (merging on, tolerance 0, lines to
\* points), lines 2446-2449: coincident points are merged, points on no cell
\* are dropped, the points are numbered as the cells first use them, a line
\* left with one point becomes a vertex, and the vertices precede the lines.
\* Each kept point carries its point data.
CleanPolyData(P, L, nodes) ==
    LET visits == Flatten(L, Len(L))
        kept == MergedPoints(P, visits, Len(visits))
        cells == [e \in DOMAIN L |-> CleanCell(P, kept, L[e], Len(L[e]))]
    IN  [Points |-> [i \in DOMAIN kept |-> P[kept[i]]],
         Lines |-> SelectSeq(cells, LAMBDA c : Len(c) = 1)
                     \o SelectSeq(cells, LAMBDA c : Len(c) > 1),
         Nodes |-> [i \in DOMAIN kept |-> nodes[kept[i]]]]

\* lines 2438-2441: 3.0 * _dxy, or 5.0 * _dxy when _div_threshold < 0.1
GapDistance(cfg) == (IF cfg.sensitive THEN 5 ELSE 3) * cfg.dxy

\* line 243
ScalePoint(p, cfg) ==
    <<cfg.dxy * (p[1] + cfg.origin[1]), cfg.dxy * (p[2] + cfg.origin[2]),
      cfg.dz * (p[3] + cfg.origin[3])>>

ScalePolyData(P, cfg) == [i \in DOMAIN P |-> ScalePoint(P[i], cfg)]

RECURSIVE PathLength(_, _, _)
\* the inner loop of lines 1982-1987: length += h for n = 1 .. points-1
PathLength(P, c, n) ==
    IF n <= 1 THEN 0
    ELSE PathLength(P, c, n - 1) + Dist(P[c[n - 1]], P[c[n]])

EdgeLength(P, c) == PathLength(P, c, Len(c))

BroadcastEnds(Lgt, c, length) ==
    [p \in DOMAIN Lgt |->
        IF p = c[1] \/ p = c[Len(c)] THEN length ELSE Lgt[p]]

\* lines 1988-1990: the edge total goes to every point of the edge
Broadcast(Lgt, c, length) ==
    [p \in DOMAIN Lgt |-> IF p \in Range(c) THEN length ELSE Lgt[p]]

RECURSIVE LengthPass(_, _, _, _)
\* for (edge = NumberOfCells; edge--;): the last edge first
LengthPass(P, L, edge, Lgt) ==
    IF edge = Len(L) THEN Broadcast(Lgt, L[edge], EdgeLength(P, L[edge]))
    ELSE Broadcast(LengthPass(P, L, edge + 1, Lgt), L[edge], EdgeLength(P, L[edge]))

\* line 1975: SetNumberOfTuples allocates the array and writes nothing, and
\* only the points of an edge are written afterwards.  The entry of a point
\* on no edge is read as whatever the allocation held: any of these values
Indeterminate == {0 - 1, 0, 999}

\* the contents the array may have before the first write
Uninitialised(P) == [DOMAIN P -> Indeterminate]

\* lines 1969-1995, on an array that starts as 'unset'
EstimateTubuleLength(P, L, unset) ==
    IF Len(L) = 0 THEN unset ELSE LengthPass(P, L, 1, unset)

RECURSIVE TotalLength(_, _, _)
TotalLength(P, L, edge) ==
    IF edge = 0 THEN 0 ELSE TotalLength(P, L, edge - 1) + EdgeLength(P, L[edge])

\* lines 2048-2052.  The frustum sum 'volume' of line 2046 is computed and
\* never used: the reported volume is length * (acos(-1.0) * pow(_rad,2)),
\* here in units of pi/4000 cubic microns.
GetVolumeFromSkeletonLengthAndWidth(P, L, W, cfg) ==
    LET length == TotalLength(P, L, Len(L))
    IN  << <<"Total length (um)", length>>,
           <<"Volume from length (um3)", length * cfg.rad * cfg.rad>> >>

RECURSIVE SumSeq(_, _)
SumSeq(s, n) == IF n = 0 THEN 0 ELSE SumSeq(s, n - 1) + s[n]

\* the value of sqrt() of a negative argument; no width is negative
NaN == 0 - 1

\* line 1960: sqrt(sd_w/N - (av_w/N)*(av_w/N)), rounded down to the tenth of a
\* micron.  A width of the model stands for every double that rounds to it.
\* When the widths of two or more points are equal to the tenth, the
\* argument of sqrt is the rounding residue of the two quotients: zero, a
\* small positive number, or a small negative one, and then the result is
\* NaN.  With one point both terms are the same double and the result is 0.
StdWidth(W) ==
    LET N == Len(W)
        av_w == SumSeq(W, N)
        sd_w == SumSeq([i \in 1 .. N |-> W[i] * W[i]], N)
        var == N * sd_w - av_w * av_w
    IN  IF var = 0 /\ N >= 2 THEN {0, NaN} ELSE {ISqrt(var \div (N * N))}

\* lines 1958-1961, the average rounded down to the tenth of a micron
WidthAttributes(W, sd) ==
    LET N == Len(W)
        av_w == SumSeq(W, N)
    IN  << <<"Average width (um)", av_w \div N>>, <<"Std width (um)", sd>> >>

Adjacent(L, S) ==
    S \cup UNION {Range(L[e]) : e \in {e \in DOMAIN L : Range(L[e]) \cap S /= {}}}

RECURSIVE Region(_, _)
Region(L, S) == LET T == Adjacent(L, S) IN IF T = S THEN S ELSE Region(L, T)

UsedPoints(L) == UNION {Range(L[e]) : e \in DOMAIN L}

\* lines 2084-2091: the number of regions of vtkPolyDataConnectivityFilter,
\* cells being connected through the points they share
CComps(L) == Cardinality({Region(L, {p}) : p \in UsedPoints(L)})

\* GetTopologicalAttributes, lines 2064-2077: the first and the last point of
\* every cell go to the list Endpoints; k is a point's count in that list
EndpointUses(L, p) ==
    Cardinality({e \in DOMAIN L : L[e][1] = p})
        + Cardinality({e \in DOMAIN L : L[e][Len(L[e])] = p})

\* the points counted in "#End points" (k = 1)
TopologicalEndPoints(L) ==
    {p \in UsedPoints(L) : EndpointUses(L, p) = 1}

\* the points counted in "#Bifurcations" (k >= 3)
TopologicalBifurcations(L) ==
    {p \in UsedPoints(L) : EndpointUses(L, p) >= 3}

\* the number of segments of the graph that meet at point p
TrueDegree(L, p) ==
    SumSeq([e \in DOMAIN L |->
               Cardinality({i \in 1 .. Len(L[e]) - 1 : L[e][i] = p})
                 + Cardinality({i \in 1 .. Len(L[e]) - 1 : L[e][i + 1] = p})],
           Len(L))

\* the Nodes array of the thinning: a node number (the 0-based point id
\* here) at every graph vertex, a point of true degree other than 2, and
\* -1 at the points interior to an edge
ThinningNodes(P, L) ==
    [p \in DOMAIN P |-> IF TrueDegree(L, p) /= 2 THEN p - 1 ELSE 0 - 1]

(***************************************************************************)
(* Skeletons handed over by the thinning                                   *)
(***************************************************************************)
Skeleton(P, L) == [Points |-> P, Lines |-> L]

SkeletonPool ==
    { \* one two-point edge, of length 5 and along z
      Skeleton(<< <<0,0,0>>, <<3,4,0>> >>, << <<1,2>> >>),
      Skeleton(<< <<0,0,0>>, <<0,0,2>> >>, << <<1,2>> >>),
      \* one edge with a turn
      Skeleton(<< <<0,0,0>>, <<3,0,0>>, <<3,4,0>> >>, << <<1,2,3>> >>),
      \* three edges meeting at point 2, two of them also at point 4
      Skeleton(<< <<0,0,0>>, <<3,0,0>>, <<3,4,0>>, <<0,4,0>> >>,
               << <<1,2>>, <<2,3,4>>, <<2,4>> >>),
      \* two collinear edges, 3, 4 and 5 voxels apart
      Skeleton(<< <<0,0,0>>, <<4,0,0>>, <<7,0,0>>, <<11,0,0>> >>,
               << <<1,2>>, <<3,4>> >>),
      Skeleton(<< <<0,0,0>>, <<4,0,0>>, <<8,0,0>>, <<12,0,0>> >>,
               << <<1,2>>, <<3,4>> >>),
      Skeleton(<< <<0,0,0>>, <<4,0,0>>, <<9,0,0>>, <<13,0,0>> >>,
               << <<1,2>>, <<3,4>> >>),
      \* a closed loop of two edges, and an edge 2 voxels from it
      Skeleton(<< <<0,0,0>>, <<3,0,0>>, <<3,4,0>>, <<0,4,0>>, <<5,0,0>>, <<9,0,0>> >>,
               << <<1,2,3>>, <<3,4,1>>, <<5,6>> >>),
      \* a closed loop of one edge, and an edge 2 voxels from it
      Skeleton(<< <<0,0,0>>, <<3,0,0>>, <<3,4,0>>, <<0,4,0>>, <<5,0,0>>, <<9,0,0>> >>,
               << <<1,2,3,4,1>>, <<5,6>> >>),
      \* an edge ending 2 voxels from the middle of another
      Skeleton(<< <<-8,0,0>>, <<0,0,0>>, <<8,0,0>>, <<0,2,0>>, <<0,6,0>> >>,
               << <<1,2,3>>, <<4,5>> >>) }

\* _dxy and _dz in tenths of a micron, _rad in twentieths
GraphConfigs ==
    [enhance_connectivity : BOOLEAN, sensitive : BOOLEAN,
     dxy : {5, 10}, dz : {20}, rad : {3, 4},
     origin : {<<0,0,0>>, <<1,0,0>>}]

\* the widths EstimateTubuleWidth may measure, in tenths of a micron
WidthFields(n) ==
    {[p \in 1 .. n |-> w] : w \in {3, 6, 8}} \cup {[p \in 1 .. n |-> 2 * p]}

InitGraph ==
    /\ \E K \in SkeletonPool :
          /\ Points = K.Points
          /\ LinesIn = K.Lines
          /\ Lines = K.Lines
    /\ graphCfg \in GraphConfigs
    /\ Width = <<>>
    /\ Length = <<>>
    /\ NodesG = ThinningNodes(Points, Lines)
    /\ graphAttr = <<>>
    /\ pcG = "thinned"
    /\ ParkedForGraph

\* lines 2432-2450
FragmentConnection ==
    /\ pcG = "thinned"
    /\ IF graphCfg.enhance_connectivity
       THEN LET connected == ConnectSkeletonFragments(Points, Lines,
                                                     GapDistance(graphCfg))
                clean == CleanPolyData(Points, connected, NodesG)
            IN  /\ Points' = clean.Points
                /\ Lines' = clean.Lines
                /\ NodesG' = clean.Nodes
       ELSE UNCHANGED <<Points, Lines, NodesG>>
    /\ pcG' = "connected"
    /\ UNCHANGED <<LinesIn, Width, Length, graphCfg, graphAttr>>
    /\ FrameGraph

ScaleSkeleton ==
    /\ pcG = "connected"
    /\ Points' = ScalePolyData(Points, graphCfg)
    /\ pcG' = "scaled"
    /\ UNCHANGED <<LinesIn, Lines, Width, Length, NodesG, graphCfg, graphAttr>>
    /\ FrameGraph

EstimateTubuleWidth ==
    /\ pcG = "scaled"
    /\ \E W \in WidthFields(Len(Points)) :
          /\ Width' = W
          /\ \E sd \in StdWidth(W) :
                graphAttr' = graphAttr \o WidthAttributes(W, sd)
    /\ pcG' = "width"
    /\ UNCHANGED <<Points, LinesIn, Lines, Length, NodesG, graphCfg>>
    /\ FrameGraph

TubuleLength ==
    /\ pcG = "width"
    /\ \E unset \in Uninitialised(Points) :
          Length' = EstimateTubuleLength(Points, Lines, unset)
    /\ pcG' = "length"
    /\ UNCHANGED <<Points, LinesIn, Lines, Width, NodesG, graphCfg, graphAttr>>
    /\ FrameGraph

VolumeFromSkeleton ==
    /\ pcG = "length"
    /\ graphAttr' = graphAttr
           \o GetVolumeFromSkeletonLengthAndWidth(Points, Lines, Width, graphCfg)
    /\ pcG' = "done"
    /\ UNCHANGED <<Points, LinesIn, Lines, Width, Length, NodesG, graphCfg>>
    /\ FrameGraph

NextGraph ==
    \/ FragmentConnection
    \/ ScaleSkeleton
    \/ EstimateTubuleWidth
    \/ TubuleLength
    \/ VolumeFromSkeleton

SpecGraph == InitGraph /\ [][NextGraph]_vars

(***************************************************************************)
(* C7.  After EstimateTubuleLength every point that lies on exactly one    *)
(* edge carries that edge's total (the sum of the distances between its    *)
(* consecutive points), and a point shared by several edges carries the    *)
(* total of one of them.                                                   *)
(***************************************************************************)
EdgesOf(p) == {e \in DOMAIN Lines : p \in Range(Lines[e])}

LengthIsEdgeTotal ==
    pcG \in {"length", "done"} =>
        \A e \in DOMAIN Lines :
            \A p \in Range(Lines[e]) :
                /\ EdgesOf(p) = {e} => Length[p] = EdgeLength(Points, Lines[e])
                /\ \E f \in EdgesOf(p) : Length[p] = EdgeLength(Points, Lines[f])

\* point 2 lies on three edges of totals 3, 7 and 5 voxels and carries the
\* first one; point 3 is interior to the edge with a turn and carries 3 + 4
LengthWitness ==
    /\ pcG = "length"
    /\ Len(Lines) = 3
    /\ graphCfg.dxy = 10
    /\ Cardinality(EdgesOf(2)) = 3
    /\ Length[2] = 30 /\ Length[1] = 30
    /\ EdgesOf(3) = {2} /\ Length[3] = 70
    /\ EdgeLength(Points, Lines[3]) = 50

(***************************************************************************)
(* C8.  For a skeleton of a single two-point edge of length L whose two    *)
(* points have the same width w, the reported volume is pi * L * (w/2)^2.  *)
(* In units of pi/4000: length (tenths) times the squared half width       *)
(* (twentieths), and w/2 in twentieths is w in tenths.                     *)
(***************************************************************************)
ReportedVolumeUsesWidth ==
    (/\ pcG = "done"
     /\ Len(Lines) = 1 /\ Len(Lines[1]) = 2
     /\ Width[1] = Width[2]) =>
        \E i \in DOMAIN graphAttr :
            /\ graphAttr[i][1] = "Volume from length (um3)"
            /\ graphAttr[i][2] = EdgeLength(Points, Lines[1]) * Width[1] * Width[1]

(***************************************************************************)
(* C9.  As claimed: a skeleton of two disjoint components has 2 components *)
(* before the repair and, after ConnectSkeletonFragments, 1 if the gap     *)
(* distance exceeds the separation of the components and 2 otherwise.      *)
(* As amended: after the repair it has 1 component exactly when a          *)
(* degree-1 endpoint of one component and a degree-1 endpoint of the       *)
(* other lie at a distance d with 0.1 < d <= gap, and 2 otherwise.         *)
(***************************************************************************)
\* the least squared distance between points of different components
Separation2 ==
    LET cross == {pq \in UsedPoints(LinesIn) \X UsedPoints(LinesIn) :
                     Region(LinesIn, {pq[1]}) /= Region(LinesIn, {pq[2]})}
    IN  MinOf({Dist2(Points[pq[1]], Points[pq[2]]) : pq \in cross})

Gap10Squared == GapDistance(graphCfg) * GapDistance(graphCfg)

RepairRan ==
    /\ pcG = "connected"
    /\ graphCfg.enhance_connectivity
    /\ CComps(LinesIn) = 2

EndpointsAcrossWithinGap ==
    \E p, q \in 1 .. Len(Points) :
        /\ Degree(LinesIn, p) = 1 /\ Degree(LinesIn, q) = 1
        /\ Region(LinesIn, {p}) /= Region(LinesIn, {q})
        /\ 100 * Dist2(Points[p], Points[q]) <= Gap10Squared
        /\ 100 * Dist2(Points[p], Points[q]) > 1

RepairJoinsWhenGapExceedsSeparation ==
    RepairRan =>
        CComps(Lines) = (IF Gap10Squared > 100 * Separation2 THEN 1 ELSE 2)

RepairJoinsEndpointsWithinGap ==
    RepairRan =>
        CComps(Lines) = (IF EndpointsAcrossWithinGap THEN 1 ELSE 2)

\* two edges whose nearest endpoints are exactly the gap distance apart
\* have been joined
RepairWitness ==
    /\ RepairRan
    /\ Gap10Squared = 100 * Separation2
    /\ EndpointsAcrossWithinGap
    /\ CComps(Lines) = 1
    /\ Len(Lines) > Len(LinesIn)

(***************************************************************************)
(* The batch loop of main and the attribute report                         *)
(*                                                                         *)
(* An attribute is a (name, value) pair.  The model adds to each entry the *)
(* index of the file that was being processed when it was appended; the    *)
(* code keeps no such field.  Widths and lengths are in tenths of a        *)
(* micron, _rad in twentieths, and a volume is a multiple of pi/4000 cubic *)
(* microns as in the skeleton graph above: the factor acos(-1.0) of line   *)
(* 2051 is the unit, so that the value n stands for n * pi / 4000 um3.     *)
(***************************************************************************)
Attribute(name, value, f) == [name |-> name, value |-> value, file |-> f]

KeepAttributes(a) == a

\* line 2704: mitoObject.attributes.clear()
ClearAttributes(a) == <<>>

\* lines 1958-1961
PushWidthAttributes(a, av, sd, f) ==
    a \o <<Attribute("Average width (um)", av, f), Attribute("Std width (um)", sd, f)>>

\* lines 2049-2052: length * (acos(-1.0) * pow(_rad,2)), in units of pi/4000
PushVolumeAttributes(a, length, rad, f) ==
    a \o <<Attribute("Total length (um)", length, f),
           Attribute("Volume from length (um3)", length * rad * rad, f)>>

\* the values one file may produce
WidthValues == {3, 6}

LengthValues == {25, 70}

MainConfigs ==
    [checkonly : BOOLEAN, analyze : BOOLEAN, nfiles : 1 .. MaxFiles, rad : {3}]

InitMain ==
    /\ attributes = <<>>
    /\ file = 0
    /\ mainCfg \in MainConfigs
    /\ dumped = <<>>
    /\ pcM = "loop"
    /\ ParkedForMain

\* lines 2702-2706: the head of one iteration
StartFile ==
    /\ pcM = "loop"
    /\ file < mainCfg.nfiles
    /\ attributes' = ClearAttributes(attributes)
    /\ file' = file + 1
    /\ pcM' = IF mainCfg.checkonly THEN "checkonly" ELSE "vesselness"
    /\ UNCHANGED <<mainCfg, dumped>>
    /\ FrameMain

\* line 2708
ExportDetailedMaxProjection ==
    /\ pcM = "checkonly"
    /\ pcM' = "analyze"
    /\ UNCHANGED <<attributes, file, mainCfg, dumped>>
    /\ FrameMain

\* lines 2115, 2204: MultiscaleVesselness returns before any attribute
VesselnessGivesUp ==
    /\ pcM = "vesselness"
    /\ pcM' = "dump"
    /\ UNCHANGED <<attributes, file, mainCfg, dumped>>
    /\ FrameMain

\* lines 2099-2490: the segmentation and the skeleton
VesselnessSegments ==
    /\ pcM = "vesselness"
    /\ pcM' = "width"
    /\ UNCHANGED <<attributes, file, mainCfg, dumped>>
    /\ FrameMain

\* line 2492
AppendWidth ==
    /\ pcM = "width"
    /\ \E av \in WidthValues, sd \in {0, 1, NaN} :
          attributes' = PushWidthAttributes(attributes, av, sd, file)
    /\ pcM' = "volume"
    /\ UNCHANGED <<file, mainCfg, dumped>>
    /\ FrameMain

\* line 2537
AppendVolume ==
    /\ pcM = "volume"
    /\ \E length \in LengthValues :
          attributes' = PushVolumeAttributes(attributes, length, mainCfg.rad, file)
    /\ pcM' = "dump"
    /\ UNCHANGED <<file, mainCfg, dumped>>
    /\ FrameMain

\* line 2713: DumpResults receives a copy of mitoObject
DumpResults ==
    /\ pcM = "dump"
    /\ dumped' = Append(dumped, attributes)
    /\ pcM' = "config"
    /\ UNCHANGED <<attributes, file, mainCfg>>
    /\ FrameMain

\* line 2714
ExportConfigFile ==
    /\ pcM = "config"
    /\ pcM' = "analyze"
    /\ UNCHANGED <<attributes, file, mainCfg, dumped>>
    /\ FrameMain

\* lines 2718-2720: RunGraphAnalysis gets the file name only
EndOfIteration ==
    /\ pcM = "analyze"
    /\ pcM' = "loop"
    /\ UNCHANGED <<attributes, file, mainCfg, dumped>>
    /\ FrameMain

\* line 2727
MainReturns ==
    /\ pcM = "loop"
    /\ ~(file < mainCfg.nfiles)
    /\ pcM' = "returned"
    /\ UNCHANGED <<attributes, file, mainCfg, dumped>>
    /\ FrameMain

NextMain ==
    \/ StartFile
    \/ ExportDetailedMaxProjection
    \/ VesselnessGivesUp
    \/ VesselnessSegments
    \/ AppendWidth
    \/ AppendVolume
    \/ DumpResults
    \/ ExportConfigFile
    \/ EndOfIteration
    \/ MainReturns

SpecMain == InitMain /\ [][NextMain]_vars

(***************************************************************************)
(* C10.  While one file is processed the report only grows: every step     *)
(* leaves the earlier entries and their order unchanged, or empties the    *)
(* report at the start of the next file; so no file's report, as held or   *)
(* as dumped, contains an entry appended for another file.                 *)
(***************************************************************************)
IsPrefix(s, t) == Len(s) <= Len(t) /\ \A i \in DOMAIN s : t[i] = s[i]

ReportGrowsOrRestarts ==
    \/ IsPrefix(attributes, attributes')
    \/ (pcM = "loop" /\ file' = file + 1 /\ attributes' = <<>>)

ReportOfCurrentFileOnly ==
    /\ \A i \in DOMAIN attributes : attributes[i].file = file
    /\ \A k \in DOMAIN dumped : \A i \in DOMAIN dumped[k] : dumped[k][i].file = k

ReportOnlyGrows == [](ReportOfCurrentFileOnly) /\ [][ReportGrowsOrRestarts]_vars

\* the second file's report is complete and the first file's was dumped
ReportWitness ==
    /\ pcM = "dump"
    /\ file = 2
    /\ Len(attributes) = 4
    /\ Len(dumped) = 1 /\ Len(dumped[1]) = 4
    /\ attributes[1].name = "Average width (um)"
    /\ attributes[4].name = "Volume from length (um3)"
    /\ attributes /= dumped[1]

(***************************************************************************)
(* One batch, file by file: main's loop around MultiscaleVesselness        *)
(*                                                                         *)
(* The files come out of a folder scan, so each exists; it may still be    *)
(* impossible to read.  A grid is a record of its state ("grid", "empty":  *)
(* the output of a reader that failed, "NULL"), its dimensions and its bit *)
(* depth.  Pixel sizes are in tenths of a micron.                          *)
(***************************************************************************)
PaddedPlanes == 7

Grid(dim, depth) == [state |-> "grid", dim |-> dim, depth |-> depth]

\* the output of a reader whose Update() failed: no extent, no scalars
EmptyGrid == [state |-> "empty", dim |-> <<0, 0, 0>>, depth |-> 0]

NullGrid == [state |-> "NULL", dim |-> <<0, 0, 0>>, depth |-> 0]

NoGrid == [state |-> "none", dim |-> <<0, 0, 0>>, depth |-> 0]

SourceFile(readable, depth, planes) ==
    [readable |-> readable, depth |-> depth, planes |-> planes]

SourcePool ==
    { SourceFile(TRUE, 16, 4), SourceFile(TRUE, 8, 4), SourceFile(TRUE, 32, 4),
      SourceFile(TRUE, 16, 1), SourceFile(FALSE, 16, 4) }

SourceGrid(f) == Grid(<<DimX, DimY, f.planes>>, f.depth)

\* line 2178: vtkImageResample with the double _resample/_dxy as its
\* magnification along z; the last plane of its output is the floor of the
\* last plane of its input times the magnification
ResampledPlanes(planes, resample, dxy) ==
    Truncate(FMul(FromInt(planes - 1),
                  FDiv(Decimal(resample, 10), Decimal(dxy, 10)))) + 1

\* lines 2128-2162: a single plane becomes a 16-bit stack of sz planes
PaddedGrid(g) == Grid(<<g.dim[1], g.dim[2], PaddedPlanes>>, 16)

\* lines 2170-2181
ResampledGrid(g, cfg, sp) ==
    Grid(<<g.dim[1], g.dim[2], ResampledPlanes(g.dim[3], cfg.resample, sp[1])>>,
         g.depth)

\* Convert16To8bit and Convert16To8bitZAdaptiveGentle: a shallow copy with
\* 8-bit scalars, or NULL for any other scalar type; a grid without scalars
\* reports VTK_DOUBLE
ConvertedGrid(g) ==
    IF g.state = "grid" /\ g.depth \in {8, 16} THEN Grid(g.dim, 8) ELSE NullGrid

\* -resample 1.2 with -xy 0.4 has the magnification 1.2/0.4, a double just
\* under 3
RunConfigs ==
    [Type : {"TIF", "VTK"}, resample : {0, 2, 12}, checkonly : BOOLEAN,
     dxy : {1, 4}, dz : {2}]

FileLists == UNION {[1 .. n -> SourcePool] : n \in 1 .. MaxFiles}

InitRun ==
    /\ runCfg \in RunConfigs
    /\ srcFiles \in FileLists
    /\ fileR = 0
    /\ ImageR = NoGrid
    /\ ImageDataR = NoGrid
    /\ spacingR = <<runCfg.dxy, runCfg.dz>>
    /\ reportR = <<>>
    /\ retR = <<>>
    /\ pcR = "loop"
    /\ ParkedForRun

\* lines 2702-2706
RunStartFile ==
    /\ pcR = "loop"
    /\ fileR < Len(srcFiles)
    /\ reportR' = <<>>
    /\ fileR' = fileR + 1
    /\ ImageR' = NoGrid
    /\ ImageDataR' = NoGrid
    /\ pcR' = IF runCfg.checkonly THEN "checkonly" ELSE "open"
    /\ UNCHANGED <<runCfg, srcFiles, spacingR, retR>>
    /\ FrameRun

\* line 2708
RunCheckOnly ==
    /\ pcR = "checkonly"
    /\ pcR' = "endfile"
    /\ UNCHANGED <<runCfg, srcFiles, fileR, ImageR, ImageDataR, spacingR, reportR, retR>>
    /\ FrameRun

\* lines 2107-2120: CanReadFile, else return -1
OpenTIF ==
    /\ pcR = "open"
    /\ runCfg.Type = "TIF"
    /\ IF srcFiles[fileR].readable
       THEN /\ ImageR' = SourceGrid(srcFiles[fileR])
            /\ pcR' = "load"
            /\ retR' = retR
       ELSE /\ ImageR' = ImageR
            /\ pcR' = "dump"
            /\ retR' = Append(retR, -1)
    /\ UNCHANGED <<runCfg, srcFiles, fileR, ImageDataR, spacingR, reportR>>
    /\ FrameRun

\* lines 2128-2189
LoadTIF ==
    /\ pcR = "load"
    /\ IF ImageR.dim[3] = 1
       THEN /\ ImageR' = PaddedGrid(ImageR)
            /\ spacingR' = spacingR
       ELSE IF runCfg.resample > 0
       THEN /\ ImageR' = ResampledGrid(ImageR, runCfg, spacingR)
            /\ spacingR' = <<spacingR[1], spacingR[1]>>
       ELSE /\ ImageR' = ImageR
            /\ spacingR' = spacingR
    /\ pcR' = "convert"
    /\ UNCHANGED <<runCfg, srcFiles, fileR, ImageDataR, reportR, retR>>
    /\ FrameRun

\* lines 2191-2198: the reader's output is taken without any check
OpenVTK ==
    /\ pcR = "open"
    /\ runCfg.Type = "VTK"
    /\ ImageR' = IF srcFiles[fileR].readable
                 THEN SourceGrid(srcFiles[fileR]) ELSE EmptyGrid
    /\ pcR' = "convert"
    /\ UNCHANGED <<runCfg, srcFiles, fileR, ImageDataR, spacingR, reportR, retR>>
    /\ FrameRun

\* lines 2216-2224
ConvertTo8bit ==
    /\ pcR = "convert"
    /\ ImageR' = ConvertedGrid(ImageR)
    /\ pcR' = "dims"
    /\ UNCHANGED <<runCfg, srcFiles, fileR, ImageDataR, spacingR, reportR, retR>>
    /\ FrameRun

\* line 2226: Dim = Image -> GetDimensions(), a virtual call; through a
\* NULL Image the process dies here, before the test of line 2236
ReadDimensions ==
    /\ pcR = "dims"
    /\ IF ImageR.state = "NULL"
       THEN /\ pcR' = "crashed"
            /\ retR' = Append(retR, "crash")
       ELSE /\ pcR' = "segment"
            /\ retR' = retR
    /\ UNCHANGED <<runCfg, srcFiles, fileR, ImageR, ImageDataR, spacingR, reportR>>
    /\ FrameRun

\* lines 2238-2490: vesselness to skeleton; the grid keeps its dimensions
SegmentAndThin ==
    /\ pcR = "segment"
    /\ pcR' = "width"
    /\ UNCHANGED <<runCfg, srcFiles, fileR, ImageR, ImageDataR, spacingR, reportR, retR>>
    /\ FrameRun

\* lines 2490-2494: the skeleton is scaled by _dxy and _dz, then measured
RunTubuleWidth ==
    /\ pcR = "width"
    /\ reportR' = reportR \o <<"Average width (um)", "Std width (um)">>
    /\ pcR' = "profile"
    /\ UNCHANGED <<runCfg, srcFiles, fileR, ImageR, ImageDataR, spacingR, retR>>
    /\ FrameRun

\* lines 2499-2519: the file is read once more into ImageData, as it is on
\* disk, and MapImageIntensity looks every skeleton point up in it at
\* round(r[2] / _dz); the file was read before, so it is read now
RunIntensityProfile ==
    /\ pcR = "profile"
    /\ ImageDataR' = SourceGrid(srcFiles[fileR])
    /\ pcR' = "volume"
    /\ UNCHANGED <<runCfg, srcFiles, fileR, ImageR, spacingR, reportR, retR>>
    /\ FrameRun

\* lines 2537-2546; the call of GetTopologicalAttributes at line 2539 is
\* commented out
RunVolumeAndReturn ==
    /\ pcR = "volume"
    /\ reportR' = reportR \o <<"Total length (um)", "Volume from length (um3)">>
    /\ retR' = Append(retR, 0)
    /\ pcR' = "dump"
    /\ UNCHANGED <<runCfg, srcFiles, fileR, ImageR, ImageDataR, spacingR>>
    /\ FrameRun

\* lines 2713-2714: main does not look at the return value
RunDumpAndConfig ==
    /\ pcR = "dump"
    /\ pcR' = "endfile"
    /\ UNCHANGED <<runCfg, srcFiles, fileR, ImageR, ImageDataR, spacingR, reportR, retR>>
    /\ FrameRun

\* lines 2718-2722
RunEndOfIteration ==
    /\ pcR = "endfile"
    /\ pcR' = "loop"
    /\ UNCHANGED <<runCfg, srcFiles, fileR, ImageR, ImageDataR, spacingR, reportR, retR>>
    /\ FrameRun

\* line 2727
RunReturns ==
    /\ pcR = "loop"
    /\ ~(fileR < Len(srcFiles))
    /\ pcR' = "returned"
    /\ UNCHANGED <<runCfg, srcFiles, fileR, ImageR, ImageDataR, spacingR, reportR, retR>>
    /\ FrameRun

NextRun ==
    \/ RunStartFile
    \/ RunCheckOnly
    \/ OpenTIF
    \/ LoadTIF
    \/ OpenVTK
    \/ ConvertTo8bit
    \/ ReadDimensions
    \/ SegmentAndThin
    \/ RunTubuleWidth
    \/ RunIntensityProfile
    \/ RunVolumeAndReturn
    \/ RunDumpAndConfig
    \/ RunEndOfIteration
    \/ RunReturns

SpecRun == InitRun /\ [][NextRun]_vars

(***************************************************************************)
(* C11.  After a run that completes successfully the report holds the      *)
(* width attributes, the length and volume attributes and the topology     *)
(* attributes (end points, bifurcations, connected components), appended   *)
(* in that order.                                                          *)
(***************************************************************************)
RunSucceeded == pcR = "dump" /\ Len(retR) = fileR /\ retR[fileR] = 0

ReportHasTopology ==
    RunSucceeded =>
        reportR = <<"Average width (um)", "Std width (um)",
                    "Total length (um)", "Volume from length (um3)",
                    "#End points", "#Bifurcations", "#CComps">>

(***************************************************************************)
(* C12.  When the normalization returns its empty (NULL) result for a      *)
(* grid that is neither 8-bit nor 16-bit, the orchestrator tests it before *)
(* any further use, runs no later stage for the file and the file's run    *)
(* ends in failure.                                                        *)
(***************************************************************************)
NullResultEndsRunInFailure ==
    (ImageR.state = "NULL" /\ pcR /= "dims") =>
        /\ pcR \in {"dump", "endfile"}
        /\ Len(retR) = fileR
        /\ retR[fileR] = -1

(***************************************************************************)
(* C13.  When a file's source volume cannot be opened, for TIF and for     *)
(* VTK, the run of that file stops before any processing stage, appends    *)
(* no attribute and signals failure to its caller, and the batch loop      *)
(* goes on to the next file.                                               *)
(***************************************************************************)
UnreadableStopsBeforeProcessing ==
    (fileR >= 1 /\ ~runCfg.checkonly /\ ~srcFiles[fileR].readable
        /\ pcR \notin {"open"}) =>
        /\ pcR \in {"dump", "endfile", "loop", "returned"}
        /\ Len(retR) = fileR /\ retR[fileR] = -1
        /\ reportR = <<>>

(***************************************************************************)
(* C16.  From the moment a pipeline run starts until it ends the spacing   *)
(* (dxy, dxy, dz) and the grid dimensions have the same values at every    *)
(* stage, for every configuration, runs with z-resampling and runs on      *)
(* single-plane input included: no step of a run changes the spacing or    *)
(* the dimensions of the grid it works on, and the grid the intensity      *)
(* profile is read from has the dimensions of that grid.                   *)
(***************************************************************************)
InsideRun(pc) ==
    pc \in {"load", "convert", "dims", "segment", "width", "profile", "volume",
            "dump"}

SameGeometry ==
    /\ spacingR' = spacingR
    /\ (ImageR.state = "grid" /\ ImageR'.state = "grid") => ImageR'.dim = ImageR.dim

ProfileOnWorkingGrid ==
    (ImageDataR.state = "grid" /\ ImageR.state = "grid") =>
        ImageDataR.dim = ImageR.dim

GeometryFixedDuringRun ==
    /\ [](ProfileOnWorkingGrid)
    /\ [][(InsideRun(pcR) /\ InsideRun(pcR')) => SameGeometry]_vars

(***************************************************************************)
(* Degenerate regions of the normalisation policies                        *)
(***************************************************************************)
\* what the policy that has run returns for Image16, the cast of a NaN
\* yielding nan
PolicyResult(nan) ==
    IF pcN = "global" THEN Convert16To8bit(Image16, nan)
    ELSE IF pcN = "plane" THEN Convert16To8bitZAdaptive(Image16)
    ELSE IF pcN = "blocks"
         THEN Convert16To8bitZAdaptiveBlocks(Image16, block_size, nan)
    ELSE Convert16To8bitZAdaptiveGentle(Image16, block_size, nan)

\* C15: no policy divides by a zero range: whichever policy has run on a
\* 16-bit volume, its output is the one defined by the input, the same
\* whatever the conversion of a 0/0 would yield.
ZeroRangeHasDefinedFallback ==
    (pcN /= "start" /\ scalarType = "VTK_UNSIGNED_SHORT") =>
        \A nan \in NaNCast : Image8 = PolicyResult(nan)

IsUniform(img, S) == \A o \in S, q \in S : img[o] = img[q]

\* C19: after the per-plane policy has run on a 16-bit volume, every voxel
\* of every plane whose samples are all equal, zero included, is 128.
UniformPlaneIsMidGray ==
    (pcN = "plane" /\ scalarType = "VTK_UNSIGNED_SHORT") =>
        \A z \in 0 .. DimZ - 1 :
            IsUniform(Image16, PlaneIds(z)) =>
                \A o \in PlaneIds(z) : Image8[o] = 128

(***************************************************************************)
(* The block options of the command line (main)                            *)
(*                                                                         *)
(* main walks argv once.  The model keeps the three options that set a     *)
(* block value, each with the integer atoi reads from the word after it.   *)
(* -smart-component-filtering reads that word only when there is one and   *)
(* it does not start with '-': a negative number is taken for the next     *)
(* option and no value is read.                                            *)
(***************************************************************************)
MaxArg == 2

MaxArgs == 2

ArgValues == (0 - MaxArg) .. MaxArg

Option(name, has_value, value) ==
    [name |-> name, has_value |-> has_value, value |-> value]

BlockOptions ==
    { Option("-adaptive", TRUE, v) : v \in ArgValues }
    \cup { Option("-z-block-size", TRUE, v) : v \in ArgValues }
    \cup { Option("-smart-component-filtering", TRUE, v) : v \in ArgValues }
    \cup { Option("-smart-component-filtering", FALSE, 0) }

CommandLines == UNION { [1 .. n -> BlockOptions] : n \in 0 .. MaxArgs }

\* main, lines 2578-2589
DefaultBlockCfg ==
    [adaptive_threshold |-> FALSE, nblks |-> 3,
     z_block_size |-> 8,
     smart_component_filtering |-> FALSE, min_component_size |-> 5]

\* lines 2626-2629 and 2638-2641: if (value < 1) value = 1
AtLeastOne(value) == IF value < 1 THEN 1 ELSE value

InitCfg ==
    /\ argvC \in CommandLines
    /\ argiC = 0
    /\ blockCfg = DefaultBlockCfg
    /\ pcC = "args"
    /\ ParkedForCfg

\* lines 2616-2619
ParseAdaptive ==
    /\ pcC = "args"
    /\ argiC < Len(argvC)
    /\ argvC[argiC + 1].name = "-adaptive"
    /\ blockCfg' = [blockCfg EXCEPT !.adaptive_threshold = TRUE,
                                    !.nblks = argvC[argiC + 1].value]
    /\ argiC' = argiC + 1
    /\ UNCHANGED <<argvC, pcC>>
    /\ FrameCfg

\* lines 2623-2630
ParseZBlockSize ==
    /\ pcC = "args"
    /\ argiC < Len(argvC)
    /\ argvC[argiC + 1].name = "-z-block-size"
    /\ blockCfg' = [blockCfg EXCEPT
                       !.z_block_size = AtLeastOne(argvC[argiC + 1].value)]
    /\ argiC' = argiC + 1
    /\ UNCHANGED <<argvC, pcC>>
    /\ FrameCfg

\* line 2636: i+1 < argc && argv[i+1][0] != '-'; the decimal form of an
\* integer starts with '-' exactly when the integer is negative
ReadsValue(option) == option.has_value /\ option.value >= 0

\* lines 2634-2643
ParseSmartComponentFiltering ==
    /\ pcC = "args"
    /\ argiC < Len(argvC)
    /\ argvC[argiC + 1].name = "-smart-component-filtering"
    /\ blockCfg' = [blockCfg EXCEPT
                       !.smart_component_filtering = TRUE,
                       !.min_component_size =
                           IF ReadsValue(argvC[argiC + 1])
                           THEN AtLeastOne(argvC[argiC + 1].value)
                           ELSE @]
    /\ argiC' = argiC + 1
    /\ UNCHANGED <<argvC, pcC>>
    /\ FrameCfg

\* the argument loop ends and the batch loop starts the pipeline
StartPipeline ==
    /\ pcC = "args"
    /\ argiC = Len(argvC)
    /\ pcC' = "pipeline"
    /\ UNCHANGED <<argvC, argiC, blockCfg>>
    /\ FrameCfg

NextCfg ==
    \/ ParseAdaptive
    \/ ParseZBlockSize
    \/ ParseSmartComponentFiltering
    \/ StartPipeline

SpecCfg == InitCfg /\ [][NextCfg]_vars

\* C14: when the pipeline starts, the XY block count, the z-block size and
\* the minimum component size are each at least 1, whatever the command line
\* gave.
BlockValuesAtLeastOne ==
    pcC = "pipeline" =>
        /\ blockCfg.nblks >= 1
        /\ blockCfg.z_block_size >= 1
        /\ blockCfg.min_component_size >= 1

(***************************************************************************)
(* The scale loop on its own (MultiscaleVesselness, lines 2263-2279)       *)
(*                                                                         *)
(* The body of the loop is the vesselness stage modelled above; here it is *)
(* one step that records the scale it ran at.  A run that never leaves the *)
(* loop keeps the first ScaleCap scales in scalesS and goes on iterating.  *)
(***************************************************************************)
MaxSigma == 2

MaxCount == 3

\* more than any run that leaves the loop executes
ScaleCap == MaxCount + 2

\* -scales sigmai sigmaf nsigma, and _dsigma of line 2698
ScaleConfigs ==
    { MitoConfig(si, sf, n, FALSE, 3) :
        si \in 1 .. MaxSigma, sf \in 1 .. MaxSigma, n \in 1 .. MaxCount }

InitScale ==
    /\ scaleCfg \in ScaleConfigs
    /\ filesS \in 1 .. MaxFiles
    /\ fileS = 1
    /\ sigmaS = SigmaStart(scaleCfg)
    /\ scalesS = <<>>
    /\ pcS = "test"
    /\ ParkedForScale

\* sigma <= _sigmaf + 0.5 * _dsigma holds
ScaleTestPasses ==
    /\ pcS = "test"
    /\ sigmaS <= SigmaLimit(scaleCfg)
    /\ pcS' = "body"
    /\ UNCHANGED <<scaleCfg, filesS, fileS, sigmaS, scalesS>>
    /\ FrameScale

\* GetVesselness and the fusion run at sigma; then sigma += _dsigma
ScaleBody ==
    /\ pcS = "body"
    /\ scalesS' = IF Len(scalesS) < ScaleCap THEN Append(scalesS, sigmaS)
                  ELSE scalesS
    /\ sigmaS' = sigmaS + scaleCfg.dsigma
    /\ pcS' = "test"
    /\ UNCHANGED <<scaleCfg, filesS, fileS>>
    /\ FrameScale

\* the test fails: the run goes on to the stages after the loop
ScaleTestFails ==
    /\ pcS = "test"
    /\ ~(sigmaS <= SigmaLimit(scaleCfg))
    /\ pcS' = "fused"
    /\ UNCHANGED <<scaleCfg, filesS, fileS, sigmaS, scalesS>>
    /\ FrameScale

\* the run completes or fails, and main's loop takes the next file
ScaleNextFile ==
    /\ pcS = "fused"
    /\ fileS < filesS
    /\ fileS' = fileS + 1
    /\ sigmaS' = SigmaStart(scaleCfg)
    /\ scalesS' = <<>>
    /\ pcS' = "test"
    /\ UNCHANGED <<scaleCfg, filesS>>
    /\ FrameScale

\* the last file is done: main returns
ScaleBatchEnds ==
    /\ pcS = "fused"
    /\ fileS = filesS
    /\ pcS' = "returned"
    /\ UNCHANGED <<scaleCfg, filesS, fileS, sigmaS, scalesS>>
    /\ FrameScale

NextScale ==
    \/ ScaleTestPasses
    \/ ScaleBody
    \/ ScaleTestFails
    \/ ScaleNextFile
    \/ ScaleBatchEnds

SpecScale == InitScale /\ [][NextScale]_vars

\* a sequential program: it takes its next step whenever it has one
FairSpecScale == SpecScale /\ WF_vars(NextScale)

\* C17: for every scale configuration with count >= 1, a zero step included,
\* every file's scale loop terminates and the batch gets through its files.
ScaleLoopTerminates == <>(pcS = "returned")

\* C18: when the loop ends for a configuration with sigma_min <= sigma_max,
\* it has run exactly count scales, each within [sigma_min, sigma_max], and
\* for count > 1 the k-th is sigma_min + k*(sigma_max - sigma_min)/(count-1).
ScalesEvenlySpaced ==
    (pcS = "fused" /\ scaleCfg.sigmai <= scaleCfg.sigmaf) =>
        /\ Len(scalesS) = scaleCfg.nsigma
        /\ \A k \in 1 .. Len(scalesS) :
              /\ scaleCfg.sigmai * SigmaDen(scaleCfg) <= scalesS[k]
              /\ scalesS[k] <= scaleCfg.sigmaf * SigmaDen(scaleCfg)
        /\ scaleCfg.nsigma > 1 =>
              \A k \in 1 .. Len(scalesS) :
                  scalesS[k] * (scaleCfg.nsigma - 1) =
                      SigmaDen(scaleCfg) *
                          ( scaleCfg.sigmai * (scaleCfg.nsigma - 1)
                            + (k - 1) * (scaleCfg.sigmaf - scaleCfg.sigmai) )

(***************************************************************************)
(* Per-plane adaptive binarization                                         *)
(* (BinarizeAndConvertDoubleToCharZAdaptive, lines 974-1051)               *)
(*                                                                         *)
(* No caller passes a volume to this routine, so its samples are any       *)
(* doubles: whole or not, negative or not.  The base threshold is in       *)
(* tenths and stands for the double nearest to it.  The statistics are     *)
(* computed in double as the code computes them: the loops visit a plane   *)
(* with x in the outer loop and y in the inner one, and every sum is       *)
(* rounded after each addition.  A threshold is a double.                  *)
(***************************************************************************)
\* lines 998-1001: the voxels of plane z in the order the loops visit them
PlaneVisit(z) ==
    [i \in 1 .. DimX * DimY |-> GetId((i - 1) \div DimY, (i - 1) % DimY, z)]

RECURSIVE SumFrom(_, _)
\* st.s with the terms from the one of index st.i on added one after the other
SumFrom(st, terms) ==
    IF st.i > Len(terms) THEN st.s
    ELSE SumFrom([s |-> FAdd(st.s, terms[st.i]), i |-> st.i + 1], terms)

\* the terms added one after the other, from 0.0
SumTo(terms) == SumFrom([s |-> FromInt(0), i |-> 1], terms)

\* (val - z_mean) * (val - z_mean)
SquaredDeviation(val, mean) == LET d == FSub(val, mean) IN FMul(d, d)

\* lines 993-1020: z_sum, z_mean, var_sum and z_std of plane z
PlaneStats(img, z) ==
    LET order == PlaneVisit(z)
        n == Len(order)
        z_sum == SumTo([i \in 1 .. n |-> img[order[i]]])
        z_mean == FDiv(z_sum, FromInt(n))
        var_sum == SumTo([i \in 1 .. n |->
                             SquaredDeviation(img[order[i]], z_mean)])
        z_std == FSqrt(FDiv(var_sum, FromInt(n)))
    IN  [sum |-> z_sum, mean |-> z_mean, var_sum |-> var_sum, std |-> z_std]

\* line 1024: z_mean + (z_std * base_threshold * 2.0)
StatisticThreshold(img, z, b) ==
    LET st == PlaneStats(img, z)
    IN  FAdd(st.mean, FMul(FMul(st.std, Decimal(b, 10)), FromInt(2)))

\* line 1027: if (z_threshold > z_max) z_threshold = z_max * 0.8
ClampHigh(t, z_max) ==
    IF FLess(z_max, t) THEN FMul(z_max, Decimal(8, 10)) ELSE t

KeepLow(t, z_min, z_max) == t

\* line 1028: if (z_threshold < z_min) z_threshold = z_min + (z_max-z_min)*0.1
ClampLow(t, z_min, z_max) ==
    IF FLess(t, z_min)
    THEN FAdd(z_min, FMul(FSub(z_max, z_min), Decimal(1, 10)))
    ELSE t

\* lines 994-1005: z_min starts at DBL_MAX, which exceeds every sample, and
\* z_max at DBL_MIN, the least positive normal double, which a plane without
\* a sample above it keeps
PlaneRange(img, z) ==
    [min |-> FMinOf(Values(img, PlaneIds(z))),
     max |-> FMaxOf(Values(img, PlaneIds(z)) \cup {DblMin})]

\* the threshold applied to plane z
ZThreshold(img, z, b) ==
    LET range == PlaneRange(img, z)
    IN  ClampLow(ClampHigh(StatisticThreshold(img, z, b), range.max),
                 range.min, range.max)

\* lines 1033-1045: val <= z_threshold gives 0, anything else 255
BinarizeAndConvertDoubleToCharZAdaptive(img, b) ==
    LET applied == Table([z \in 0 .. DimZ - 1 |-> ZThreshold(img, z, b)])
    IN  Table([id \in Ids |->
                  IF FLess(applied[GetZ(id)], img[id]) THEN 255 ELSE 0])

ZPool == {0, 9, 10}

ZBackground == {0, 9}

\* samples below zero
ZNegative == {0 - 2, 0 - 1}

\* samples in tenths: the sum of nine samples of 0.1 or of 0.7 is rounded
ZTenths == {1, 7, 0 - 7}

ZBases == {0, 4, 10, 20}

ZSupport == <<GetId(0, 0, 0), GetId(1, 0, 0), GetId(1, 1, 1)>>

\* planes on which a rounding decides: the statistic of the first is 8 in
\* exact arithmetic at base 0.4 and just under 8 in double, that of the
\* second is the plane's maximum 9 at base 1.0 and just over 9 in double
ZMeasured ==
    << <<0, 8, 7, 4, 9, 7, 0, 9, 4>>, <<7, 4, 1, 9, 2, 1, 4, 1, 4>> >>

\* plane p in every z-plane but the last, which holds bg
ZStack(p, bg) ==
    [id \in Ids |->
        IF GetZ(id) < DimZ - 1 /\ GetX(id) + 3 * GetY(id) < Len(p)
                               /\ GetX(id) < 3
        THEN p[GetX(id) + 3 * GetY(id) + 1]
        ELSE bg]

\* the samples v at the three voxels of ZSupport, bg at every other voxel
ZSpotted(v, bg) ==
    [id \in Ids |->
        IF id = ZSupport[1] THEN v[1]
        ELSE IF id = ZSupport[2] THEN v[2]
        ELSE IF id = ZSupport[3] THEN v[3]
        ELSE bg]

\* volumes of whole samples
ZWhole ==
    { ZSpotted(v, bg) : v \in [1 .. 3 -> ZPool], bg \in ZBackground }
    \cup { ZStack(ZMeasured[k], bg) : k \in DOMAIN ZMeasured, bg \in ZBackground }
    \cup { ZSpotted(v, 0 - 2) : v \in [1 .. 3 -> ZNegative] }

\* volumes of samples in tenths, every plane uniform
ZUniform == { [id \in Ids |-> u[GetZ(id)]] : u \in [0 .. DimZ - 1 -> ZTenths] }

ZImages ==
    { DoubleField(f, 1) : f \in ZWhole } \cup { DoubleField(f, 10) : f \in ZUniform }

InitBinZ ==
    /\ ImageZ \in ZImages
    /\ base_threshold \in ZBases
    /\ z_threshold = <<>>
    /\ BinaryZ = "-"
    /\ pcZ = "start"
    /\ ParkedForBinZ

BinarizeZAdaptive ==
    /\ pcZ = "start"
    /\ z_threshold' = Table([z \in 0 .. DimZ - 1 |->
                                ZThreshold(ImageZ, z, base_threshold)])
    /\ BinaryZ' = BinarizeAndConvertDoubleToCharZAdaptive(ImageZ, base_threshold)
    /\ pcZ' = "done"
    /\ UNCHANGED <<ImageZ, base_threshold>>
    /\ FrameBinZ

NextBinZ == BinarizeZAdaptive

SpecBinZ == InitBinZ /\ [][NextBinZ]_vars

\* the least and the greatest sample of plane z
PlaneMin(z) == FMinOf(Values(ImageZ, PlaneIds(z)))

PlaneMax(z) == FMaxOf(Values(ImageZ, PlaneIds(z)))

\* the greatest of the samples of plane z and DBL_MIN, the value the running
\* maximum of line 994 starts from
PlaneTop(z) == FMaxOf({PlaneMax(z), DblMin})

\* C20 as stated: for every plane and base threshold >= 0 the applied
\* threshold lies in [min + 0.1*range, 0.8*max] of the plane.
ThresholdInClampInterval ==
    (pcZ = "done" /\ base_threshold >= 0) =>
        \A z \in 0 .. DimZ - 1 :
            /\ ~FLess(z_threshold[z],
                      FAdd(PlaneMin(z),
                           FMul(FSub(PlaneMax(z), PlaneMin(z)), Decimal(1, 10))))
            /\ ~FLess(FMul(PlaneMax(z), Decimal(8, 10)), z_threshold[z])

\* C20: for every plane and base threshold >= 0 the applied threshold is not
\* below the plane's minimum and not above the greater of the plane's maximum
\* and DBL_MIN.
ThresholdInPlaneRange ==
    (pcZ = "done" /\ base_threshold >= 0) =>
        \A z \in 0 .. DimZ - 1 :
            /\ ~FLess(z_threshold[z], PlaneMin(z))
            /\ ~FLess(PlaneTop(z), z_threshold[z])

\* the statistic of plane z rounded below the plane's minimum and was
\* replaced by min + 0.1*range
RoundedBelowMin(z) ==
    /\ FLess(StatisticThreshold(ImageZ, z, base_threshold), PlaneMin(z))
    /\ FEq(z_threshold[z],
           FAdd(PlaneMin(z), FMul(FSub(PlaneTop(z), PlaneMin(z)), Decimal(1, 10))))

\* the statistic of plane z exceeded the maximum and 0.8*max fell below the
\* minimum, so both replacements were made
ReplacedTwice(z) ==
    /\ FLess(PlaneTop(z), StatisticThreshold(ImageZ, z, base_threshold))
    /\ FLess(FMul(PlaneTop(z), Decimal(8, 10)), PlaneMin(z))
    /\ FEq(z_threshold[z],
           FAdd(PlaneMin(z), FMul(FSub(PlaneTop(z), PlaneMin(z)), Decimal(1, 10))))

\* plane z has no positive sample and its threshold is above all its samples
AboveNegativePlane(z) ==
    /\ FLess(PlaneMax(z), FromInt(0))
    /\ FLess(PlaneMax(z), z_threshold[z])

\* one volume with a plane of each kind
ThresholdWitness ==
    /\ pcZ = "done"
    /\ \E z \in 0 .. DimZ - 1 : RoundedBelowMin(z)
    /\ \E z \in 0 .. DimZ - 1 : ReplacedTwice(z)
    /\ \E z \in 0 .. DimZ - 1 : AboveNegativePlane(z)

(***************************************************************************)
(* Per-block conservative binarization                                     *)
(* (BinarizeAndConvertDoubleToCharZAdaptiveConservative, lines 1053-1207)  *)
(*                                                                         *)
(* A volume is given by the size dim of its planes, the sample bg most of  *)
(* its voxels hold and, plane by plane, the samples of its first voxels in *)
(* the order of their ids (x + dim[1]*y within a plane); the other voxels  *)
(* of a plane hold bg.  Samples are doubles and none is negative; the base *)
(* threshold is in tenths.  The loops of the routine visit a plane column  *)
(* by column (x outside, y inside), and the sums are computed in that      *)
(* order, addition by addition.                                            *)
(***************************************************************************)
UnitK == 2 * 2

\* the place, from 0, at which the loops of lines 1085-1086 visit the i-th
\* voxel of a plane in the order of the ids
VisitPlace(dim, i) == ((i - 1) % dim[1]) * dim[2] + ((i - 1) \div dim[1])

\* the listed voxels of a plane in the order of their visits
VisitOrder(dim, k) ==
    [j \in 1 .. k |->
        CHOOSE i \in 1 .. k :
            Cardinality({h \in 1 .. k : VisitPlace(dim, h) < VisitPlace(dim, i)})
                = j - 1]

\* the visits of plane z as runs of equal samples: before each listed voxel
\* the voxels of bg visited since the one before, and after the last one the
\* rest of the plane
PlaneRuns(img, z) ==
    LET given == img.planes[z + 1]
        k == Len(given)
        order == Table(VisitOrder(img.dim, k))
        place(j) == IF j = 0 THEN 0 - 1 ELSE VisitPlace(img.dim, order[j])
    IN  [r \in 1 .. 2 * k + 1 |->
            IF r = 2 * k + 1
            THEN [val |-> img.bg,
                  count |-> img.dim[1] * img.dim[2] - 1 - place(k)]
            ELSE IF r % 2 = 1
            THEN [val |-> img.bg,
                  count |-> place((r + 1) \div 2) - place((r - 1) \div 2) - 1]
            ELSE [val |-> given[order[r \div 2]], count |-> 1]]

RECURSIVE BlockRuns(_, _, _)
\* the visits of planes zs .. ze-1
BlockRuns(img, zs, ze) ==
    IF zs >= ze THEN <<>> ELSE PlaneRuns(img, zs) \o BlockRuns(img, zs + 1, ze)

RECURSIVE RunSumFrom(_, _)
RunSumFrom(st, runs) ==
    IF st.i > Len(runs) THEN st.s
    ELSE RunSumFrom([s |-> AddRepeated(st.s, runs[st.i].val, runs[st.i].count),
                     i |-> st.i + 1], runs)

\* sum += val over the visits, from 0.0
RunSum(runs) == RunSumFrom([s |-> FromInt(0), i |-> 1], runs)

\* lines 1079-1110: the statistics of the z-block starting at plane zs.
\* block_min starts at DBL_MAX, which exceeds every sample, and block_max at
\* DBL_MIN, which a block without a positive sample keeps (no sample lies
\* between 0 and DBL_MIN).
BlockStats(img, zs, bs) ==
    LET ze == ZEnd(zs, bs)
        runs == BlockRuns(img, zs, ze)
        n == img.dim[1] * img.dim[2] * (ze - zs)
        block_sum == RunSum(runs)
        block_mean == FDiv(block_sum, FromInt(n))
        var_sum == RunSum([i \in 1 .. Len(runs) |->
                              [val |-> SquaredDeviation(runs[i].val, block_mean),
                               count |-> runs[i].count]])
        block_std == FSqrt(FDiv(var_sum, FromInt(n)))
        vals == {runs[i].val : i \in {h \in 1 .. Len(runs) : runs[h].count > 0}}
        top == FMaxOf(vals)
    IN  [n |-> n,
         sum |-> block_sum,
         mean |-> block_mean,
         var_sum |-> var_sum,
         std |-> block_std,
         min |-> FMinOf(vals),
         top |-> top,
         max |-> IF Positive(top) THEN top ELSE DblMin]

\* lines 1069-1070: ScalarsDouble -> GetRange, as range[1] - range[0]
GlobalRange(img) ==
    LET runs == BlockRuns(img, 0, DimZ)
        vals == {runs[i].val : i \in {h \in 1 .. Len(runs) : runs[h].count > 0}}
    IN  FSub(FMaxOf(vals), FMinOf(vals))

\* lines 1115-1121: block_range, with 1.0 in place of a range below 1e-6
BlockRange(st) ==
    LET block_range == FSub(st.max, st.min)
    IN  IF FLess(block_range, Decimal(1, 1000000)) THEN FromInt(1)
        ELSE block_range

\* line 1124: (block_mean - block_min) / block_range
BrightnessFactor(st) == FDiv(FSub(st.mean, st.min), BlockRange(st))

\* line 1125: (block_mean > 0) ? (block_std / block_mean) : 0.0
Cv(st) == IF Positive(st.mean) THEN FDiv(st.std, st.mean) ELSE FromInt(0)

\* line 1128: block_mean < 0.1*global range, or brightness_factor < 0.2
IsVeryDarkRegion(st, grange) ==
    \/ FLess(st.mean, FMul(grange, Decimal(1, 10)))
    \/ FLess(BrightnessFactor(st), Decimal(2, 10))

\* line 1143: block_min + block_range * 0.01
DarkMinThreshold(st) == FAdd(st.min, FMul(BlockRange(st), Decimal(1, 100)))

\* lines 1144 and 1181: if (t < lo) t = lo
AtLeast(t, lo) == IF FLess(t, lo) THEN lo ELSE t

\* lines 1132-1144
DarkThreshold(st, grange, b) ==
    LET spread == FMul(st.std, Decimal(b, 10))
        t == IF FLess(st.mean, FMul(grange, Decimal(5, 100)))
             THEN FAdd(st.mean, FMul(spread, Decimal(15, 10)))
             ELSE FAdd(st.mean, FMul(spread, FromInt(2)))
    IN  AtLeast(t, DarkMinThreshold(st))

\* lines 1151-1164: block_std*0.2 for cv > 0.5, -block_std*0.1 for cv < 0.3,
\* less block_std*0.1 for brightness_factor < 0.5
AdaptiveAdjustment(st) ==
    LET cv == Cv(st)
        noise == IF FLess(Decimal(5, 10), cv) THEN FMul(st.std, Decimal(2, 10))
                 ELSE IF FLess(cv, Decimal(3, 10))
                 THEN FMul(FNeg(st.std), Decimal(1, 10))
                 ELSE FromInt(0)
    IN  IF FLess(BrightnessFactor(st), Decimal(5, 10))
        THEN FSub(noise, FMul(st.std, Decimal(1, 10)))
        ELSE noise

\* lines 1148-1166
NormalThreshold(st, b) ==
    FAdd(FAdd(st.min, FMul(BlockRange(st), Decimal(b, 10))), AdaptiveAdjustment(st))

\* lines 1170-1179: min_threshold and max_threshold by region type
MinThreshold(st, dark, b) ==
    IF dark THEN FAdd(st.min, FMul(BlockRange(st), Decimal(1, 100)))
    ELSE FAdd(st.min, FMul(BlockRange(st), FMul(Decimal(b, 10), Decimal(3, 10))))

MaxThreshold(st, dark, b) ==
    IF dark THEN FAdd(st.mean, FMul(st.std, FromInt(3)))
    ELSE FAdd(st.min, FMul(BlockRange(st), FMul(Decimal(b, 10), FromInt(3))))

\* line 1182: if (t > hi) t = hi
AtMost(t, hi) == IF FLess(hi, t) THEN hi ELSE t

\* lines 1115-1182: the threshold applied to a z-block of statistics st
BlockThreshold(st, grange, b) ==
    LET dark == IsVeryDarkRegion(st, grange)
        t == IF dark THEN DarkThreshold(st, grange, b) ELSE NormalThreshold(st, b)
    IN  AtMost(AtLeast(t, MinThreshold(st, dark, b)), MaxThreshold(st, dark, b))

\* the threshold applied to the z-block starting at zs
AdaptiveThreshold(img, zs, bs, b) ==
    BlockThreshold(BlockStats(img, zs, bs), GlobalRange(img), b)

\* lines 1187-1202: val <= adaptive_threshold gives 0, anything else 255
ConservativeVoxel(val, t) == IF FLess(t, val) THEN 255 ELSE 0

BlockStarts(bs) == {z \in 0 .. DimZ - 1 : z % bs = 0}

\* the thresholds of the z-blocks, by the plane a block starts at
BlockThresholds(img, b, bs) ==
    Table([zs \in BlockStarts(bs) |-> AdaptiveThreshold(img, zs, bs, b)])

\* the grid binarized with the thresholds t of its z-blocks
BinarizedWith(img, t, bs) ==
    [bg |-> Table([z \in 0 .. DimZ - 1 |->
                      ConservativeVoxel(img.bg, t[ZStart(z, bs)])]),
     planes |-> Table([z \in 1 .. DimZ |->
                   Table([i \in 1 .. Len(img.planes[z]) |->
                       ConservativeVoxel(img.planes[z][i], t[ZStart(z - 1, bs)])])])]

\* lines 1053-1207: the thresholds of the blocks, then the voxels against them
BinarizeAndConvertDoubleToCharZAdaptiveConservative(img, b, bs) ==
    CHOOSE out \in { BinarizedWith(img, t, bs) :
                        t \in {BlockThresholds(img, b, bs)} } : TRUE

(***************************************************************************)
(* Inputs: a small plane and a 400 x 400 plane, each with at most two      *)
(* voxels that differ from the background, in quarters, and small planes   *)
(* on which a test of the routine falls on a tie of the exact values       *)
(***************************************************************************)
PlaneSizesK == {<<DimX, DimY>>, <<400, 400>>}

OthersK == {<<>>, <<4>>, <<0>>, <<1, 4>>}

BasesK == {1, 4, 10}

\* background and first samples, in quarters
MeasuredK ==
    { [bg |-> 2, given |-> <<4, 4, 4, 0, 4>>],
      [bg |-> 8, given |-> <<0, 4, 4, 4, 4>>],
      [bg |-> 8, given |-> <<12, 20, 20, 4>>] }

Quarters(s) == [i \in 1 .. Len(s) |-> Decimal(s[i], UnitK)]

ImagesK ==
    { [bg |-> Decimal(g, UnitK), dim |-> d, planes |-> pl] :
        g \in {0, 2}, d \in PlaneSizesK,
        pl \in [1 .. DimZ -> {Quarters(o) : o \in OthersK}] }
    \cup
    { [bg |-> Decimal(m.bg, UnitK), dim |-> <<DimX, DimY>>,
       planes |-> [z \in 1 .. DimZ |-> Quarters(m.given)]] : m \in MeasuredK }

InitBinK ==
    /\ ImageK \in ImagesK
    /\ baseK \in BasesK
    /\ block_sizeK \in 1 .. MaxBlockSize
    /\ thresholdK = <<>>
    /\ BinaryK = "-"
    /\ pcK = "start"
    /\ ParkedForBinK

BinarizeConservative ==
    /\ pcK = "start"
    /\ thresholdK' = BlockThresholds(ImageK, baseK, block_sizeK)
    /\ BinaryK' = BinarizedWith(ImageK, thresholdK', block_sizeK)
    /\ pcK' = "done"
    /\ UNCHANGED <<ImageK, baseK, block_sizeK>>
    /\ FrameBinK

NextBinK == BinarizeConservative

SpecBinK == InitBinK /\ [][NextBinK]_vars

\* the bounds of the block's region type, over the block's own range
LowerBoundK(st, dark, b) ==
    IF dark THEN FAdd(st.min, FMul(FSub(st.top, st.min), Decimal(1, 100)))
    ELSE FAdd(st.min, FMul(FSub(st.top, st.min),
                           FMul(Decimal(b, 10), Decimal(3, 10))))

UpperBoundK(st, dark, b) ==
    IF dark THEN FAdd(st.mean, FMul(st.std, FromInt(3)))
    ELSE FAdd(st.min, FMul(FSub(st.top, st.min), FMul(Decimal(b, 10), FromInt(3))))

\* C21: for every z-block and base threshold > 0 the threshold applied lies
\* in [min + 1% of range, mean + 3*std] for a very dark block and in
\* [min + 0.3*base*range, min + 3*base*range] for a normal block.
ThresholdWithinRegionBounds ==
    (pcK = "done" /\ baseK > 0) =>
        \A zs \in BlockStarts(block_sizeK) :
            LET st == BlockStats(ImageK, zs, block_sizeK)
                dark == IsVeryDarkRegion(st, GlobalRange(ImageK))
            IN  /\ ~FLess(thresholdK[zs], LowerBoundK(st, dark, baseK))
                /\ ~FLess(UpperBoundK(st, dark, baseK), thresholdK[zs])

(***************************************************************************)
(* Voxel-level connectivity enhancer                                       *)
(* (EnhanceStructuralConnectivity, lines 1210-1324)                        *)
(*                                                                         *)
(* The volumes drawn here hold hundredths; the routine works on the        *)
(* doubles they stand for and returns doubles.  The two smoothed volumes   *)
(* come from vtkImageGaussianSmooth and are inputs here.                   *)
(***************************************************************************)
\* lines 1260-1266: the 26 neighbours in the order of the loops, dz outside
\* and dx inside; the voxel itself, the 14th of the 27, is passed over
NeighbourOrder(id) ==
    [k \in 1 .. 26 |->
        LET j == IF k <= 13 THEN k - 1 ELSE k
        IN  GetId(GetX(id) + (j % 3) - 1,
                  GetY(id) + ((j \div 3) % 3) - 1,
                  GetZ(id) + (j \div 9) - 1)]

Neighbours26(id) == Range(NeighbourOrder(id))

\* lines 1255-1271: neighbor_sum, strong_neighbors and max_neighbor
NeighbourSum(img, id) ==
    LET order == NeighbourOrder(id)
    IN  SumTo([k \in 1 .. 26 |-> img[order[k]]])

StrongNeighbours(img, id) ==
    Cardinality({o \in Neighbours26(id) : FLess(Decimal(1, 10), img[o])})

MaxNeighbour(img, id) ==
    FMaxOf({FromInt(0)} \cup {img[o] : o \in Neighbours26(id)})

\* line 1282: original < 0.05, strong_neighbors >= 4, max_neighbor > 0.15
GapRule(img, id) ==
    /\ FLess(img[id], Decimal(5, 100))
    /\ StrongNeighbours(img, id) >= 4
    /\ FLess(Decimal(15, 100), MaxNeighbour(img, id))

\* line 1288: smooth2 > original * 1.5 and smooth2 > 0.08
ConnectionRule(o, s2) ==
    FLess(FMul(o, Decimal(15, 10)), s2) /\ FLess(Decimal(8, 100), s2)

\* line 1293: original > 0.2
StrongRule(o) == FLess(Decimal(2, 10), o)

\* lines 1276, 1284: neighbor_sum / 26.0 * 0.6 + smooth2 * 0.4
GapBridgingValue(img, id, s2) ==
    FAdd(FMul(FDiv(NeighbourSum(img, id), FromInt(26)), Decimal(6, 10)),
         FMul(s2, Decimal(4, 10)))

\* lines 1279-1297: the value of an interior voxel; each rule that holds
\* overwrites the value set before it
EnhancedValue(img, id, s1, s2) ==
    LET o == img[id]
        basic == FAdd(FAdd(FMul(o, Decimal(7, 10)), FMul(s1, Decimal(2, 10))),
                      FMul(s2, Decimal(1, 10)))
        gap == IF GapRule(img, id) THEN GapBridgingValue(img, id, s2) ELSE basic
        conn == IF ConnectionRule(o, s2)
                THEN FAdd(FMul(o, Decimal(4, 10)), FMul(s2, Decimal(6, 10)))
                ELSE gap
    IN  IF StrongRule(o)
        THEN FAdd(FMul(o, Decimal(9, 10)), FMul(s1, Decimal(1, 10)))
        ELSE conn

\* lines 1244-1314: interior voxels are enhanced, boundary voxels copied
EnhanceStructuralConnectivity(img, S1, S2) ==
    Table([id \in Ids |->
              IF Interior(id) THEN EnhancedValue(img, id, S1[id], S2[id])
              ELSE img[id]])

EnhCentre == {0, 2, 4, 30}

EnhNeighbour == {0, 12, 100}

EnhSupport == <<GetId(0, 0, 0), GetId(2, 1, 1), GetId(1, 0, 2), GetId(1, 2, 1)>>

EnhImages ==
    { [id \in Ids |->
          IF id = GetId(1, 1, 1) THEN c
          ELSE IF id = EnhSupport[1] THEN v[1]
          ELSE IF id = EnhSupport[2] THEN v[2]
          ELSE IF id = EnhSupport[3] THEN v[3]
          ELSE IF id = EnhSupport[4] THEN v[4]
          ELSE bg] :
        c \in EnhCentre, v \in [1 .. 4 -> EnhNeighbour], bg \in {0, 100} }

\* a smoothed volume: a weighted average, so within the input's range; the
\* model gives every interior voxel the same smoothed value
SmoothedVolumes(img, pool) ==
    { [id \in Ids |-> IF Interior(id) THEN s ELSE img[id]] :
        s \in {p \in pool : /\ MinOf(Values(img, Ids)) <= p
                            /\ p <= MaxOf(Values(img, Ids))} }

InitEnh ==
    /\ OriginalE \in EnhImages
    /\ Smooth1E \in SmoothedVolumes(OriginalE, {0, 10, 40})
    /\ Smooth2E \in SmoothedVolumes(OriginalE, {0, 6, 9, 45, 90})
    /\ EnhancedE = "-"
    /\ pcE = "start"
    /\ ParkedForEnh

RunEnhanceStructuralConnectivity ==
    /\ pcE = "start"
    /\ EnhancedE' = EnhanceStructuralConnectivity(
                        DoubleField(OriginalE, Hundredths),
                        DoubleField(Smooth1E, Hundredths),
                        DoubleField(Smooth2E, Hundredths))
    /\ pcE' = "done"
    /\ UNCHANGED <<OriginalE, Smooth1E, Smooth2E>>
    /\ FrameEnh

NextEnh == RunEnhanceStructuralConnectivity

SpecEnh == InitEnh /\ [][NextEnh]_vars

\* C22: every interior voxel that satisfies rule (a) holds
\* 0.6*neighbour_average + 0.4*coarse_smoothing after the enhancer, whatever
\* the other rules evaluate to.
GapVoxelGetsBridgingValue ==
    pcE = "done" =>
        LET original == DoubleField(OriginalE, Hundredths)
        IN  \A id \in Ids :
                (Interior(id) /\ GapRule(original, id)) =>
                    FEq(EnhancedE[id],
                        GapBridgingValue(original, id,
                                         Decimal(Smooth2E[id], Hundredths)))

(***************************************************************************)
(* Claims on the fragment repair, continued                                *)
(***************************************************************************)
\* the unordered pairs of distinct end points (one use as an edge end) of L
\* whose distance d is within 0.1 < d <= gap
PairsToJoin(P, L, gap10) ==
    { pq \in SUBSET TopologicalEndPoints(L) :
        /\ Cardinality(pq) = 2
        /\ \A p \in pq, q \in pq :
              p /= q => /\ 100 * Dist2(P[p], P[q]) > 1
                        /\ 100 * Dist2(P[p], P[q]) <= gap10 * gap10 }

RepairStep ==
    /\ pcG = "thinned" /\ pcG' = "connected"
    /\ graphCfg.enhance_connectivity

\* C23: ConnectSkeletonFragments, called with gap = 3*dxy (5*dxy for a
\* threshold < 0.1), keeps the points and the point layers, keeps every
\* original edge, and adds exactly one two-point edge for each unordered
\* pair of distinct degree-1 endpoints at a distance 0.1 < d <= gap, a pair
\* already joined by a path included, and nothing else.
RepairAddsOneEdgePerPair ==
    [][RepairStep =>
        LET new == Len(Lines) + 1 .. Len(Lines')
            gap10 == (IF graphCfg.sensitive THEN 5 ELSE 3) * graphCfg.dxy
            pairs == PairsToJoin(Points, Lines, gap10)
        IN  /\ Points' = Points
            /\ NodesG' = NodesG /\ Width' = Width /\ Length' = Length
            /\ Len(Lines') >= Len(Lines)
            /\ SubSeq(Lines', 1, Len(Lines)) = Lines
            /\ \A e \in new :
                  /\ Len(Lines'[e]) = 2
                  /\ {Lines'[e][1], Lines'[e][2]} \in pairs
            /\ \A pq \in pairs :
                  Cardinality({e \in new : Range(Lines'[e]) = pq}) = 1
    ]_vars

\* the two ends of the edge with a turn are 5 voxels apart and the gap is 5:
\* they have been joined although the edge already links them
RepairPairWitness ==
    /\ pcG = "connected"
    /\ graphCfg.enhance_connectivity
    /\ graphCfg.sensitive /\ graphCfg.dxy = 10
    /\ LinesIn = << <<1, 2, 3>> >>
    /\ Lines = << <<1, 2, 3>>, <<1, 3>> >>


\* the SkeletonGraph invariant for the cells L: every edge references
\* existing points, and every point with a Node-role >= 0 has a true degree
\* other than 2
SkeletonGraphInvariant(L) ==
    /\ \A e \in DOMAIN L : Range(L[e]) \subseteq DOMAIN Points
    /\ \A p \in DOMAIN Points : NodesG[p] >= 0 => TrueDegree(L, p) /= 2

\* C24: a skeleton graph that satisfies the SkeletonGraph invariant before
\* the fragment repair satisfies it after ConnectSkeletonFragments has added
\* its edges.
RepairKeepsGraphInvariant ==
    (/\ pcG = "connected"
     /\ graphCfg.enhance_connectivity
     /\ SkeletonGraphInvariant(LinesIn)) =>
        SkeletonGraphInvariant(Lines)


\* C29: for every skeleton graph, one with an edge whose first and last
\* point coincide included, the points ConnectSkeletonFragments takes as
\* degree-1 endpoints are the points GetTopologicalAttributes counts as end
\* points; checked on the graph handed to the repair and on its result.
EndpointSetsAgree ==
    pcG = "connected" =>
        /\ Range(Endpoints(Points, LinesIn)) = TopologicalEndPoints(LinesIn)
        /\ Range(Endpoints(Points, Lines)) = TopologicalEndPoints(Lines)

\* the repair has run on a closed loop of one edge next to an open edge: the
\* loop's base point closes two edge ends and only the open edge has end
\* points
EndpointSetsWitness ==
    /\ pcG = "connected"
    /\ graphCfg.enhance_connectivity
    /\ \E e \in DOMAIN LinesIn :
          /\ Len(LinesIn[e]) > 2
          /\ LinesIn[e][1] = LinesIn[e][Len(LinesIn[e])]
          /\ EndpointUses(LinesIn, LinesIn[e][1]) = 2
    /\ Range(Endpoints(Points, LinesIn)) = {5, 6}


(***************************************************************************)
(* Hole filling (FillHoles)                                                *)
(***************************************************************************)
\* grids of any dimensions: a point id and its coordinates
IdsOf(d) == 0 .. d[1] * d[2] * d[3] - 1

IdOf(d, x, y, z) == x + y * d[1] + z * d[1] * d[2]

XOf(d, id) == id % d[1]

YOf(d, id) == (id % (d[1] * d[2])) \div d[1]

ZOf(d, id) == id \div (d[1] * d[2])

InGrid(d, x, y, z) ==
    /\ 0 <= x /\ x < d[1]
    /\ 0 <= y /\ y < d[2]
    /\ 0 <= z /\ z < d[3]

\* the bounds of the loops for (x = 1; x < Dim[0]-1; x++) ...
InteriorOf(d, id) ==
    /\ 1 <= XOf(d, id) /\ XOf(d, id) < d[1] - 1
    /\ 1 <= YOf(d, id) /\ YOf(d, id) < d[2] - 1
    /\ 1 <= ZOf(d, id) /\ ZOf(d, id) < d[3] - 1

\* the 6 face neighbours of a point that lie inside the grid
Neighbours6(d, id) ==
    { IdOf(d, XOf(d, id) + ssdx_sort[i], YOf(d, id) + ssdy_sort[i],
              ZOf(d, id) + ssdz_sort[i]) :
        i \in { j \in 1 .. 6 : InGrid(d, XOf(d, id) + ssdx_sort[j],
                                         YOf(d, id) + ssdy_sort[j],
                                         ZOf(d, id) + ssdz_sort[j]) } }

\* Volume as first written: 1 on the background voxels the x, y, z loops
\* visit, 0 on the foreground and on every voxel of a face
HoleCandidates(d, img) ==
    [id \in IdsOf(d) |-> IF InteriorOf(d, id) /\ img[id] = 0 THEN 1 ELSE 0]

\* the wave CurrA -> NextA: the voxels with Volume > 0 reached from S
RECURSIVE GrowCluster(_, _, _)
GrowCluster(d, vol, S) ==
    LET next == { id \in UNION { Neighbours6(d, s) : s \in S } :
                    vol[id] > 0 /\ id \notin S }
    IN  IF next = {} THEN S ELSE GrowCluster(d, vol, S \cup next)

\* the while (find) loop: the greatest id with Volume > 0 seeds the next
\* label, and its cluster is written -label
RECURSIVE LabelHoles(_, _, _)
LabelHoles(d, vol, label) ==
    LET left == { id \in IdsOf(d) : vol[id] > 0 }
    IN  IF left = {} THEN vol
        ELSE LET seed    == CHOOSE id \in left : \A o \in left : o <= id
                 cluster == GrowCluster(d, vol, {seed})
             IN  LabelHoles(d,
                     [id \in IdsOf(d) |->
                         IF id \in cluster THEN 0 - label ELSE vol[id]],
                     label + 1)

\* the closing loop: every voxel whose Volume is below -1 becomes 255
FillHoles(d, img) ==
    LET vol == LabelHoles(d, HoleCandidates(d, img), 1)
    IN  [id \in IdsOf(d) |-> IF vol[id] < 0 - 1 THEN 255 ELSE img[id]]

\* ---- binary grids handed to FillHoles ----
HoleDims == {<<5, 3, 3>>, <<3, 3, 5>>, <<4, 4, 3>>}

FaceIds(d) == { id \in IdsOf(d) : ~InteriorOf(d, id) }

\* the foreground of the faces: none, all of it, all but one voxel
FaceForegrounds(d) ==
    { {}, FaceIds(d), FaceIds(d) \ {IdOf(d, 0, 1, 1)} }

BinaryGrids(d) ==
    { [id \in IdsOf(d) |-> IF id \in F \cup B THEN 255 ELSE 0] :
        F \in SUBSET (IdsOf(d) \ FaceIds(d)), B \in FaceForegrounds(d) }

InitFill ==
    /\ improve_skeleton_quality \in BOOLEAN
    /\ DimH \in HoleDims
    /\ BinaryH \in BinaryGrids(DimH)
    /\ FilledH = "-"
    /\ pcH = "start"
    /\ ParkedForFill

\* line 2359: if (_improve_skeleton_quality) FillHoles(Binary)
RunFillHoles ==
    /\ pcH = "start"
    /\ FilledH' = IF improve_skeleton_quality
                  THEN FillHoles(DimH, BinaryH)
                  ELSE BinaryH
    /\ pcH' = "done"
    /\ UNCHANGED <<improve_skeleton_quality, DimH, BinaryH>>
    /\ FrameFill

NextFill == RunFillHoles

SpecFill == InitFill /\ [][NextFill]_vars

\* the background voxels 6-connected through background to a face of the grid
RECURSIVE GrowBackground(_, _, _)
GrowBackground(d, img, S) ==
    LET next == { id \in UNION { Neighbours6(d, s) : s \in S } :
                    img[id] = 0 /\ id \notin S }
    IN  IF next = {} THEN S ELSE GrowBackground(d, img, S \cup next)

OutsideBackground(d, img) ==
    GrowBackground(d, img, { id \in FaceIds(d) : img[id] = 0 })

\* C25: after FillHoles a voxel is foreground exactly when it was foreground
\* before or was a background voxel of a cavity enclosed by foreground (not
\* 6-connected through background to the grid boundary).
FillHolesFillsEnclosedCavities ==
    (pcH = "done" /\ improve_skeleton_quality) =>
        \A id \in IdsOf(DimH) :
            FilledH[id] /= 0 <=>
                \/ BinaryH[id] /= 0
                \/ id \notin OutsideBackground(DimH, BinaryH)


(***************************************************************************)
(* Discrete derivative (GetImageDerivativeDiscrete)                        *)
(***************************************************************************)
Axis(direction) == IF direction = "x" THEN 1 ELSE IF direction = "y" THEN 2 ELSE 3

CoordOf(d, id) == <<XOf(d, id), YOf(d, id), ZOf(d, id)>>

\* the position c with its coordinate along axis a replaced
Along(c, a, to) == [c EXCEPT ![a] = to]

\* Image -> GetTuple(GetId(x,y,z,dim)): the sample stored at the linear id,
\* whatever the coordinates; past the ends of the array the read is undefined
\* and returns what the memory cell at that id holds, stray[id], a value of
\* its own for every cell
SampleAt(img, d, c, stray) ==
    LET id == IdOf(d, c[1], c[2], c[3])
    IN  IF id \in IdsOf(d) THEN img[id] ELSE stray[id]

\* the positions read for the voxel at c: the three ifs run in turn
DerivativeReads(d, a, c) ==
    (IF c[a] = 0 THEN {Along(c, a, 1), Along(c, a, 0)} ELSE {})
    \cup (IF c[a] = d[a] - 1
          THEN {Along(c, a, d[a] - 1), Along(c, a, d[a] - 2)} ELSE {})
    \cup (IF c[a] > 0 /\ c[a] < d[a] - 1
          THEN {Along(c, a, c[a] + 1), Along(c, a, c[a] - 1)} ELSE {})

\* d = f1 - f2 with the f1, f2 the last matching if left, in halves
DerivativeValue(img, d, a, c, stray) ==
    IF c[a] > 0 /\ c[a] < d[a] - 1
    THEN SampleAt(img, d, Along(c, a, c[a] + 1), stray)
         - SampleAt(img, d, Along(c, a, c[a] - 1), stray)
    ELSE IF c[a] = d[a] - 1
    THEN 2 * (SampleAt(img, d, Along(c, a, d[a] - 1), stray)
              - SampleAt(img, d, Along(c, a, d[a] - 2), stray))
    ELSE 2 * (SampleAt(img, d, Along(c, a, 1), stray)
              - SampleAt(img, d, Along(c, a, 0), stray))

GetImageDerivativeDiscrete(img, d, direction, stray) ==
    [id \in IdsOf(d) |->
        DerivativeValue(img, d, Axis(direction), CoordOf(d, id), stray)]

\* the ids past the ends of the array that the call reads
StrayCells(d, a) ==
    { IdOf(d, r[1], r[2], r[3]) :
        r \in UNION { DerivativeReads(d, a, CoordOf(d, id)) : id \in IdsOf(d) } }
    \ IdsOf(d)

\* ---- grids handed to the derivative ----
DerivativeDims == {<<1, 2, 2>>, <<2, 1, 2>>, <<2, 2, 1>>, <<3, 2, 1>>, <<1, 2, 3>>}

DerivativeSamples == {0, 1, 3}

\* what a memory cell next to the array may hold: whole numbers standing for
\* any double, chosen cell by cell
StraySamples == {0, 5}

\* the most cells past the ends of the array in one call
MaxStray == 8

InitDer ==
    /\ DimD \in DerivativeDims
    /\ ImageDer \in [IdsOf(DimD) -> DerivativeSamples]
    /\ directionD \in {"x", "y", "z"}
    /\ Cardinality(StrayCells(DimD, Axis(directionD))) <= MaxStray
    /\ strayD \in [StrayCells(DimD, Axis(directionD)) -> StraySamples]
    /\ DerivativeD = "-"
    /\ readsD = "-"
    /\ pcD = "start"
    /\ ParkedForDer

RunGetImageDerivativeDiscrete ==
    /\ pcD = "start"
    /\ DerivativeD' = GetImageDerivativeDiscrete(ImageDer, DimD, directionD, strayD)
    /\ readsD' = [id \in IdsOf(DimD) |->
                     DerivativeReads(DimD, Axis(directionD), CoordOf(DimD, id))]
    /\ pcD' = "done"
    /\ UNCHANGED <<DimD, ImageDer, directionD, strayD>>
    /\ FrameDer

NextDer == RunGetImageDerivativeDiscrete

SpecDer == InitDer /\ [][NextDer]_vars

\* the sample of the grid at position c
GridSample(img, d, c) == img[IdOf(d, c[1], c[2], c[3])]

\* C26: on every grid with every dimension >= 1 and along every axis, the
\* derivative reads only samples inside the grid and holds, at index i of a
\* line of length D, (f[i+1]-f[i-1])/2 inside, f[1]-f[0] at i = 0 and
\* f[D-1]-f[D-2] at i = D-1.
DerivativeIsCentralDifference ==
    pcD = "done" =>
        \A id \in IdsOf(DimD) :
            LET a == Axis(directionD)
                c == CoordOf(DimD, id)
                f(i) == GridSample(ImageDer, DimD, Along(c, a, i))
            IN  /\ \A r \in readsD[id] : InGrid(DimD, r[1], r[2], r[3])
                /\ (c[a] > 0 /\ c[a] < DimD[a] - 1) =>
                       DerivativeD[id] = f(c[a] + 1) - f(c[a] - 1)
                /\ c[a] = 0 => DerivativeD[id] = 2 * (f(1) - f(0))
                /\ c[a] = DimD[a] - 1 =>
                       DerivativeD[id] = 2 * (f(DimD[a] - 1) - f(DimD[a] - 2))


(***************************************************************************)
(* Claims on the global noise floor (GetHessianEigenvaluesDiscrete)        *)
(***************************************************************************)
\* frobenius_norm_range[1]: the greatest Frobenius norm of the volume
MaxFrobeniusNorm(F) == MaxOf({FrobeniusNorm(F[id]) : id \in Ids})

\* the eigenvalue triple the Hessian routine left at a voxel
EigenTriple(id) == <<AUX1[id], AUX2[id], AUX3[id]>>

GlobalFloorRan == pcV = "hessian_done" /\ ~mito.adaptive_threshold

\* C27 as stated: the floor is the greatest Frobenius norm of the volume,
\* and a voxel is zeroed exactly when its norm is below that floor.
GlobalFloorIsMaxNorm ==
    GlobalFloorRan =>
        \A id \in Ids :
            EigenTriple(id) =
                IF FrobeniusNorm(HessOf[sigma][id]) < MaxFrobeniusNorm(HessOf[sigma])
                THEN Zero3
                ELSE HessEigen(HessOf[sigma][id])

\* C27, amended: the floor is the square root of the greatest Frobenius norm
\* of the volume, and a voxel is zeroed exactly when its norm is below that
\* floor (norm^2 < greatest norm).
GlobalFloorIsSqrtOfMaxNorm ==
    GlobalFloorRan =>
        \A id \in Ids :
            LET fro == FrobeniusNorm(HessOf[sigma][id])
            IN  EigenTriple(id) =
                    IF fro * fro < MaxFrobeniusNorm(HessOf[sigma])
                    THEN Zero3
                    ELSE HessEigen(HessOf[sigma][id])

\* a voxel between the two floors keeps its eigenvalues, a weak one is zeroed
GlobalFloorWitness ==
    /\ GlobalFloorRan
    /\ HessOf[sigma][Centre] = Diag(-200, -200, -100)
    /\ HessOf[sigma][CentreXp] = Diag(-400, -400, -700)
    /\ EigenTriple(Centre) = <<-100, -200, -200>>
    /\ EigenTriple(GetId(0, 0, 0)) = Zero3


(***************************************************************************)
(* Divergence filter (GetDivergenceFilter)                                 *)
(*                                                                         *)
(* The six gradients are normalised by their Euclidean norm.  The inputs   *)
(* are drawn so that every norm is an integer that divides UnitDen times   *)
(* each component: a unit component is then a whole number of 1/UnitDen    *)
(* and the filter's value a whole number of 1/(6 * UnitDen).               *)
(***************************************************************************)
UnitDen == 5

\* int s = 2
DivS == 2

Dx == <<1, -1, 0, 0, 0, 0>>

Dy == <<0, 0, 1, -1, 0, 0>>

Dz == <<0, 0, 0, 0, 1, -1>>

MI == << <<1, 0, 0>>, <<0, 1, 0>>, <<0, 0, 1>> >>

\* the bounds of the loops: s+1 <= x < Dim[0]-s-1, and so on
DivergenceVisits(d, c) ==
    \A k \in 1 .. 3 : DivS + 1 <= c[k] /\ c[k] < d[k] - DivS - 1

\* the position x + s*Dx[i], y + s*Dy[i], z + s*Dz[i]
FaceOffset(c, i) ==
    <<c[1] + DivS * Dx[i], c[2] + DivS * Dy[i], c[3] + DivS * Dz[i]>>

Plus(p, q) == <<p[1] + q[1], p[2] + q[2], p[3] + q[3]>>

Minus(p, q) == <<p[1] - q[1], p[2] - q[2], p[3] - q[3]>>

\* V[i][j] = Scalars(p + MI[j]) - Scalars(p - MI[j])
GradientAt(S, d, p) ==
    [j \in 1 .. 3 |->
        S[IdOf(d, Plus(p, MI[j])[1], Plus(p, MI[j])[2], Plus(p, MI[j])[3])]
        - S[IdOf(d, Minus(p, MI[j])[1], Minus(p, MI[j])[2], Minus(p, MI[j])[3])]]

Norm2(V) == V[1] * V[1] + V[2] * V[2] + V[3] * V[3]

\* if (norm) V[i] /= norm, in 1/UnitDen
UnitVector(V) ==
    LET norm == ISqrt(Norm2(V))
    IN  IF norm /= 0
        THEN [j \in 1 .. 3 |-> (UnitDen * V[j]) \div norm]
        ELSE [j \in 1 .. 3 |-> UnitDen * V[j]]

\* v = (V[0][0]-V[1][0]) + (V[2][1]-V[3][1]) + (V[4][2]-V[5][2]), in 1/UnitDen
DivergenceAt(S, d, c) ==
    LET V(i) == UnitVector(GradientAt(S, d, FaceOffset(c, i)))
    IN  (V(1)[1] - V(2)[1]) + (V(3)[2] - V(4)[2]) + (V(5)[3] - V(6)[3])

Magnitude(v) == IF v < 0 THEN 0 - v ELSE v

\* v = (v<0) ? -v / 6.0 : 0.0, as a numerator over 6 * UnitDen
NegativePart(v) == IF v < 0 THEN 0 - v ELSE 0

GetDivergenceFilter(d, S) ==
    [id \in IdsOf(d) |->
        IF DivergenceVisits(d, CoordOf(d, id)) /\ S[id] /= 0
        THEN NegativePart(DivergenceAt(S, d, CoordOf(d, id)))
        ELSE 0]

\* the positions whose samples enter V for the voxel at c
DivergenceReads(d, S, c) ==
    IF DivergenceVisits(d, c) /\ S[IdOf(d, c[1], c[2], c[3])] /= 0
    THEN { Plus(FaceOffset(c, i), MI[j]) : i \in 1 .. 6, j \in 1 .. 3 }
         \cup { Minus(FaceOffset(c, i), MI[j]) : i \in 1 .. 6, j \in 1 .. 3 }
    ELSE {}

\* ---- fields handed to the filter ----
DivDims == {<<7, 7, 7>>, <<8, 7, 7>>, <<7, 7, 6>>}

\* the samples that vary, and what each may hold besides the background
DivSupport ==
    << <<3, 3, 3>>, <<6, 3, 3>>, <<4, 3, 3>>, <<5, 4, 3>>,
       <<0, 3, 3>>, <<1, 4, 3>>, <<3, 6, 3>>, <<3, 3, 0>> >>

DivValues == <<1, 3, 3, 4, 3, 4, 1, 1>>

DivFieldOf(d, bg, on) ==
    [id \in IdsOf(d) |->
        IF \E k \in on : DivSupport[k] = CoordOf(d, id)
        THEN DivValues[CHOOSE k \in on : DivSupport[k] = CoordOf(d, id)]
        ELSE bg]

\* every norm the filter takes is an integer dividing UnitDen * component
ExactNorms(d, S) ==
    \A id \in IdsOf(d) :
        (DivergenceVisits(d, CoordOf(d, id)) /\ S[id] /= 0) =>
            \A i \in 1 .. 6 :
                LET V    == GradientAt(S, d, FaceOffset(CoordOf(d, id), i))
                    norm == ISqrt(Norm2(V))
                IN  /\ norm * norm = Norm2(V)
                    /\ norm /= 0 =>
                          \A j \in 1 .. 3 : (UnitDen * Magnitude(V[j])) % norm = 0

DivFields(d) ==
    { S \in { DivFieldOf(d, bg, on) :
                bg \in {0, 1}, on \in SUBSET (1 .. Len(DivSupport)) } :
        ExactNorms(d, S) }

InitDiv ==
    /\ DimDiv \in DivDims
    /\ ScalarsDiv \in DivFields(DimDiv)
    /\ DivOut = "-"
    /\ readsDiv = "-"
    /\ pcDiv = "start"
    /\ ParkedForDiv

RunGetDivergenceFilter ==
    /\ pcDiv = "start"
    /\ DivOut' = GetDivergenceFilter(DimDiv, ScalarsDiv)
    /\ readsDiv' = [id \in IdsOf(DimDiv) |->
                       DivergenceReads(DimDiv, ScalarsDiv, CoordOf(DimDiv, id))]
    /\ pcDiv' = "done"
    /\ UNCHANGED <<DimDiv, ScalarsDiv>>
    /\ FrameDiv

NextDiv == RunGetDivergenceFilter

SpecDiv == InitDiv /\ [][NextDiv]_vars

\* the distance of a position to the nearest face of the grid
FaceDistance(d, c) ==
    LET ds == { c[k] : k \in 1 .. 3 } \cup { d[k] - 1 - c[k] : k \in 1 .. 3 }
    IN  CHOOSE m \in ds : \A o \in ds : m <= o

\* C28: after GetDivergenceFilter every voxel at distance >= 3 from every
\* face with nonzero input holds max(0, -D)/6, D the divergence of the six
\* unit-normalised face-offset gradients; every other voxel holds 0; every
\* output lies in [0, 1]; every sample read is inside the grid.
DivergenceKeepsNegativePart ==
    pcDiv = "done" =>
        \A id \in IdsOf(DimDiv) :
            LET c == CoordOf(DimDiv, id)
                D == DivergenceAt(ScalarsDiv, DimDiv, c)
            IN  /\ \A r \in readsDiv[id] : InGrid(DimDiv, r[1], r[2], r[3])
                /\ 0 <= DivOut[id] /\ DivOut[id] <= 6 * UnitDen
                /\ IF FaceDistance(DimDiv, c) >= 3 /\ ScalarsDiv[id] /= 0
                   THEN DivOut[id] = (IF 0 - D > 0 THEN 0 - D ELSE 0)
                   ELSE DivOut[id] = 0

\* a voxel whose divergence is negative and not a whole number (a gradient
\* with two nonzero components was normalised), in a field where a nonzero
\* sample on a face holds 0 afterwards
DivergenceWitness ==
    /\ pcDiv = "done"
    /\ DivOut[IdOf(DimDiv, 3, 3, 3)] % UnitDen /= 0
    /\ ScalarsDiv[IdOf(DimDiv, 0, 3, 3)] /= 0
    /\ DivOut[IdOf(DimDiv, 0, 3, 3)] = 0


(***************************************************************************)
(* From the component filter to the binarization (MultiscaleVesselness,    *)
(* lines 2311-2355)                                                        *)
(*                                                                         *)
(* The labeler is modelled by what the specification says of it: the       *)
(* 6-connected components of the voxels above the threshold.  The two      *)
(* smoothed volumes the enhancer takes from vtkImageGaussianSmooth are     *)
(* inputs of the step.  The field is held in hundredths (ImageP) up to the *)
(* component filter and as the doubles they stand for (ImageEnhancedP)     *)
(* from there on.                                                          *)
(***************************************************************************)
\* the signed labels of the 6-connected components of the included voxels
ComponentLabels(img) ==
    LabelHoles(Dim, [id \in Ids |-> IF id \in Included(img) THEN 1 ELSE 0], 1)

ConnectedLabeling(img) ==
    LET vol == ComponentLabels(img)
        n   == Cardinality({vol[id] : id \in Included(img)})
    IN  [Volume |-> vol,
         CSz |-> [k \in 1 .. n |-> Cardinality({id \in Ids : vol[id] = 0 - k})],
         ncc |-> n]

\* the voxels on which the filter's loop executes SetTuple1(id,0)
ZeroedByFilter(vol, csz, n, cfg) ==
    IF n > 1 /\ cfg.smart_component_filtering
    THEN { id \in Ids : vol[id] < 0 /\ csz[0 - vol[id]] <= cfg.min_component_size }
    ELSE {}

\* the field as the per-block binarization takes it: every voxel of a plane
\* is listed, in the order of the ids
ListedVolume(img) ==
    [bg |-> img[GetId(0, 0, 0)], dim |-> <<DimX, DimY>>,
     planes |-> [z \in 1 .. DimZ |->
                    [i \in 1 .. DimX * DimY |-> img[(z - 1) * DimX * DimY + i - 1]]]]

\* the grid the listed result stands for
DenseBinary(out) ==
    Table([id \in Ids |-> out.planes[GetZ(id) + 1][(id % (DimX * DimY)) + 1]])

\* ---- the state handed to the labeler ----
PipeCentre == {0, 2, 20, 100}

\* the corner and edge voxels of the grid: the 20 voxels of the centre's
\* 26-neighbourhood that are not its face neighbours
PipeShell ==
    { id \in Ids :
        Cardinality({k \in 1 .. 3 : <<GetX(id), GetY(id), GetZ(id)>>[k] = 1}) <= 1 }

\* the voxels that hold 1.0: none, a row, a row with two more, the shell
PipeStrong ==
    { {},
      {GetId(0, 0, 0), GetId(1, 0, 0), GetId(2, 0, 0)},
      {GetId(0, 0, 0), GetId(1, 0, 0), GetId(2, 0, 0), GetId(0, 1, 0), GetId(0, 0, 1)},
      PipeShell }

PipeImages ==
    { [id \in Ids |->
          IF id = GetId(1, 1, 1) THEN c
          ELSE IF id \in on THEN Hundredths
          ELSE 0] :
        c \in PipeCentre, on \in PipeStrong }

PipeConfigs ==
    [smart_component_filtering : BOOLEAN,
     min_component_size : 1 .. MaxMinSize,
     enhance_connectivity : BOOLEAN,
     z_adaptive : BOOLEAN,
     z_block_size : 1 .. MaxBlockSize]

InitPipe ==
    /\ pipeCfg \in PipeConfigs
    /\ ImageP \in PipeImages
    /\ ImageEnhancedP = "-"
    /\ VolumeP = [id \in Ids |-> 0]
    /\ CSzP = <<>>
    /\ nccP = 0
    /\ zeroedP = {}
    /\ BinaryP = "-"
    /\ pcP = "start"
    /\ ParkedForPipe

\* line 2317
PipeLabel ==
    /\ pcP = "start"
    /\ LET L == ConnectedLabeling(ImageP)
       IN  /\ VolumeP' = L.Volume
           /\ CSzP' = L.CSz
           /\ nccP' = L.ncc
    /\ pcP' = "labelled"
    /\ UNCHANGED <<pipeCfg, ImageP, ImageEnhancedP, zeroedP, BinaryP>>
    /\ FramePipe

\* lines 2319-2335
PipeFilter ==
    /\ pcP = "labelled"
    /\ ImageP' = ComponentFilter(ImageP, VolumeP, CSzP, nccP, pipeCfg)
    /\ ImageEnhancedP' = DoubleField(ImageP', Hundredths)
    /\ zeroedP' = ZeroedByFilter(VolumeP, CSzP, nccP, pipeCfg)
    /\ pcP' = "filtered"
    /\ UNCHANGED <<pipeCfg, VolumeP, CSzP, nccP, BinaryP>>
    /\ FramePipe

\* lines 2339-2347
PipeEnhance ==
    /\ pcP = "filtered"
    /\ pipeCfg.enhance_connectivity
    /\ \E S1 \in SmoothedVolumes(ImageP, {0, 10, 40}),
          S2 \in SmoothedVolumes(ImageP, {0, 6, 50, 90}) :
          ImageEnhancedP' = EnhanceStructuralConnectivity(
                                ImageEnhancedP, DoubleField(S1, Hundredths),
                                DoubleField(S2, Hundredths))
    /\ pcP' = "enhanced"
    /\ UNCHANGED <<pipeCfg, ImageP, VolumeP, CSzP, nccP, zeroedP, BinaryP>>
    /\ FramePipe

ReadyToBinarize ==
    pcP = (IF pipeCfg.enhance_connectivity THEN "enhanced" ELSE "filtered")

\* line 2354
PipeBinarizeFixed ==
    /\ ReadyToBinarize
    /\ ~pipeCfg.z_adaptive
    /\ \E nan \in NaNCast :
          BinaryP' = BinarizeAndConvertDoubleToChar(
                         ImageEnhancedP, Decimal(FiltThreshold, Hundredths), nan)
    /\ pcP' = "binarized"
    /\ UNCHANGED <<pipeCfg, ImageP, ImageEnhancedP, VolumeP, CSzP, nccP, zeroedP>>
    /\ FramePipe

\* line 2352
PipeBinarizeBlocks ==
    /\ ReadyToBinarize
    /\ pipeCfg.z_adaptive
    /\ \E out \in { BinarizeAndConvertDoubleToCharZAdaptiveConservative(
                         ListedVolume(ImageEnhancedP),
                         FiltThreshold \div 10, pipeCfg.z_block_size) } :
          BinaryP' = DenseBinary(out)
    /\ pcP' = "binarized"
    /\ UNCHANGED <<pipeCfg, ImageP, ImageEnhancedP, VolumeP, CSzP, nccP, zeroedP>>
    /\ FramePipe

NextPipe ==
    \/ PipeLabel
    \/ PipeFilter
    \/ PipeEnhance
    \/ PipeBinarizeFixed
    \/ PipeBinarizeBlocks

SpecPipe == InitPipe /\ [][NextPipe]_vars

\* C30: with a threshold > 0, enhancement on or off and either binarization,
\* a voxel zeroed by the component filter is background (0) in the grid the
\* binarization produces.
RemovedVoxelsStayBackground ==
    pcP = "binarized" => \A id \in zeroedP : BinaryP[id] = 0

=============================================================================
